---- MODULE Spec2Model ----
(***************************************************************************)
(* Evaluator of the SOSML interpreter: declarations (declarations.ts),     *)
(* values (values.ts) and the parent-linked State they operate on.         *)
(* A State is a reference to a frame of the heap; frames are never freed,  *)
(* so a closure's captured state and a returned state are heap indices.    *)
(***************************************************************************)
EXTENDS Integers, Sequences, FiniteSets, TLC

(* ------------------------------ bounds --------------------------------- *)

\* total number of top-level declarations submitted in one session
MaxDecls == 2
\* nesting depth of function applications before an evaluation counts as
\* non-terminating
MaxDepth == 4

(* ------------------------------ values --------------------------------- *)

Undefined == [k |-> "undefined"]

Integer(n) == [k |-> "Integer", value |-> n]

ValueConstructor(name, numArgs, id) ==
    [k |-> "ValueConstructor", constructorName |-> name, numArgs |-> numArgs, id |-> id]

ConstructedValue(name, argument, id) ==
    [k |-> "ConstructedValue", constructorName |-> name, argument |-> argument, id |-> id]

ExceptionConstructor(name, numArgs, id) ==
    [k |-> "ExceptionConstructor", exceptionName |-> name, numArgs |-> numArgs, id |-> id]

ExceptionValue(name, argument, id) ==
    [k |-> "ExceptionValue", constructorName |-> name, argument |-> argument, id |-> id]

FunctionValue(state, recursives, body) ==
    [k |-> "FunctionValue", state |-> state, recursives |-> recursives, body |-> body]

\* value: the decimal digits of the number
Real(value) == [k |-> "Real", value |-> value]

\* apply, a callback of the host, is not part of the value as modelled
PredefinedFunction(name) == [k |-> "PredefinedFunction", name |-> name]

\* ValueConstructor.construct
ValueConstructor_construct(this, parameter) ==
    ConstructedValue(this.constructorName, parameter, this.id)

\* ExceptionConstructor.construct
ExceptionConstructor_construct(this, parameter) ==
    ExceptionValue(this.exceptionName, parameter, this.id)

\* the range of the int type (31 bit)
MAXINT == 1073741823

MININT == -1073741824

\* the number is a JavaScript number: an integer, or one of the values
\* written "-0", "Infinity", "-Infinity" and "NaN"
NonIntegers == {"-0", "Infinity", "-Infinity", "NaN"}

IsInteger(x) == ToString(x) \notin {ToString(s) : s \in NonIntegers}

IsNaN(x) == ~IsInteger(x) /\ x = "NaN"

IsZero(x) == IF IsInteger(x) THEN x = 0 ELSE x = "-0"

IsInfinite(x) == ~IsInteger(x) /\ x \in {"Infinity", "-Infinity"}

\* the sign bit of a number other than NaN
IsNegative(x) == IF IsInteger(x) THEN x < 0 ELSE x \in {"-0", "-Infinity"}

Zero(negative) == IF negative THEN "-0" ELSE 0

Infinity(negative) == IF negative THEN "-Infinity" ELSE "Infinity"

\* the integer a finite number equals
Finite(x) == IF IsZero(x) THEN 0 ELSE x

Abs(n) == IF n < 0 THEN 0 - n ELSE n

\* Math.floor(a / b) for finite a and b # 0
FloorDiv(a, b) ==
    IF (a >= 0) = (b > 0) THEN Abs(a) \div Abs(b)
    ELSE 0 - ((Abs(a) + Abs(b) - 1) \div Abs(b))

\* -x
Number_negate(x) ==
    IF IsNaN(x) THEN "NaN"
    ELSE IF IsZero(x) THEN Zero(~IsNegative(x))
    ELSE IF IsInfinite(x) THEN Infinity(~IsNegative(x))
    ELSE 0 - x

\* x + y
Number_add(x, y) ==
    IF IsNaN(x) \/ IsNaN(y) THEN "NaN"
    ELSE IF IsInfinite(x)
         THEN IF IsInfinite(y) /\ IsNegative(x) # IsNegative(y) THEN "NaN" ELSE x
    ELSE IF IsInfinite(y) THEN y
    ELSE IF IsZero(x) /\ IsZero(y) THEN Zero(IsNegative(x) /\ IsNegative(y))
    ELSE IF IsZero(x) THEN y
    ELSE IF IsZero(y) THEN x
    ELSE x + y

\* x * y
Number_multiply(x, y) ==
    IF IsNaN(x) \/ IsNaN(y) THEN "NaN"
    ELSE IF IsInfinite(x) \/ IsInfinite(y)
         THEN IF IsZero(x) \/ IsZero(y) THEN "NaN"
              ELSE Infinity(IsNegative(x) # IsNegative(y))
    ELSE IF IsZero(x) \/ IsZero(y) THEN Zero(IsNegative(x) # IsNegative(y))
    ELSE x * y

\* Math.floor(x / y)
Number_divide(x, y) ==
    IF IsNaN(x) \/ IsNaN(y) THEN "NaN"
    ELSE IF IsInfinite(x)
         THEN IF IsInfinite(y) THEN "NaN" ELSE Infinity(IsNegative(x) # IsNegative(y))
    ELSE IF IsInfinite(y) THEN Zero(IsNegative(x) # IsNegative(y))
    ELSE IF IsZero(y)
         THEN IF IsZero(x) THEN "NaN" ELSE Infinity(IsNegative(x) # IsNegative(y))
    ELSE IF IsZero(x) THEN Zero(IsNegative(x) # IsNegative(y))
    ELSE FloorDiv(x, y)

\* x % y: the remainder takes the sign of the dividend
Number_modulo(x, y) ==
    IF IsNaN(x) \/ IsNaN(y) \/ IsInfinite(x) \/ IsZero(y) THEN "NaN"
    ELSE IF IsInfinite(y) \/ IsZero(x) THEN x
    ELSE IF Abs(x) % Abs(y) = 0 THEN Zero(x < 0)
    ELSE IF x < 0 THEN 0 - (Abs(x) % Abs(y))
    ELSE x % Abs(y)

\* x < y
Number_less(x, y) ==
    IF IsNaN(x) \/ IsNaN(y) THEN FALSE
    ELSE IF IsInfinite(x) THEN IsNegative(x) /\ ~(IsInfinite(y) /\ IsNegative(y))
    ELSE IF IsInfinite(y) THEN ~IsNegative(y)
    ELSE Finite(x) < Finite(y)

Integer_negate(this) == Integer(Number_negate(this.value))

Integer_add(this, other) == Integer(Number_add(this.value, other.value))

Integer_multiply(this, other) == Integer(Number_multiply(this.value, other.value))

\* Math.floor(this.value / other.value)
Integer_divide(this, other) == Integer(Number_divide(this.value, other.value))

\* this.value % other.value
Integer_modulo(this, other) == Integer(Number_modulo(this.value, other.value))

\* a - b, as negation and addition
Integer_subtract(this, other) == Integer_add(this, Integer_negate(other))

\* Integer.equals: compareTo(value) === 0, which holds when neither number
\* is less than the other
Integer_equals(this, value) ==
    /\ value.k = "Integer"
    /\ ~Number_less(this.value, value.value)
    /\ ~Number_less(value.value, this.value)

\* ConstructedValue.equals; payloads are integers or constructed values
RECURSIVE ConstructedValue_equals(_, _)
ConstructedValue_equals(this, other) ==
    IF other.k # "ConstructedValue" THEN FALSE
    ELSE IF this.constructorName # other.constructorName \/ this.id # other.id THEN FALSE
    ELSE IF this.argument.k # "undefined"
         THEN IF other.argument.k = "undefined" THEN TRUE
              ELSE IF this.argument.k = "ConstructedValue"
                   THEN ConstructedValue_equals(this.argument, other.argument)
                   ELSE Integer_equals(this.argument, other.argument)
    ELSE other.argument.k = "undefined"

\* ExceptionValue.equals; payloads are integers or constructed values
ExceptionValue_equals(this, other) ==
    IF other.k # "ExceptionValue" THEN FALSE
    ELSE IF this.constructorName # other.constructorName \/ this.id # other.id THEN FALSE
    ELSE IF this.argument.k # "undefined"
         THEN IF other.argument.k = "undefined" THEN TRUE
              ELSE IF this.argument.k = "ConstructedValue"
                   THEN ConstructedValue_equals(this.argument, other.argument)
                   ELSE Integer_equals(this.argument, other.argument)
    ELSE other.argument.k = "undefined"

\* entries: a function from labels to values
RecordValue(entries) == [k |-> "RecordValue", entries |-> entries]

\* RecordValue.equals: [result, host error]. Map.forEach returns undefined, so
\* the first test `!this.entries.forEach(...)` always succeeds; its callback
\* reads this.entries[i], which no Map has, and calling equals on it fails
\* with a TypeError as soon as a label of this is a label of other
RecordValue_equals(this, other) ==
    IF other.k # "RecordValue" THEN [result |-> FALSE, err |-> ""]
    ELSE IF \E i \in DOMAIN this.entries : i \in DOMAIN other.entries
         THEN [result |-> FALSE, err |-> "TypeError"]
    ELSE [result |-> FALSE, err |-> ""]

(* ------------------------------ State ---------------------------------- *)

EmptyMap == [n \in {} |-> 0]

Put(map, name, v) == (name :> v) @@ map

NoState == 0

Frame(parent, id) ==
    [parent |-> parent, id |-> id,
     dynamicValue |-> EmptyMap, dynamicType |-> EmptyMap,
     infixEnvironment |-> EmptyMap, valueIdentifierId |-> EmptyMap,
     rebindEnvironment |-> EmptyMap]

\* State.getNestedState: a fresh child frame whose parent is the receiver
getNestedState(w, state, newId) ==
    [w  |-> [w EXCEPT !.heap = Append(w.heap, Frame(state, newId))],
     st |-> Len(w.heap) + 1]

RECURSIVE getDynamicValue(_, _, _)
getDynamicValue(heap, state, name) ==
    IF state = NoState THEN Undefined
    ELSE IF name \in DOMAIN heap[state].dynamicValue THEN heap[state].dynamicValue[name]
    ELSE getDynamicValue(heap, heap[state].parent, name)

RECURSIVE getDynamicType(_, _, _)
getDynamicType(heap, state, name) ==
    IF state = NoState THEN Undefined
    ELSE IF name \in DOMAIN heap[state].dynamicType THEN heap[state].dynamicType[name]
    ELSE getDynamicType(heap, heap[state].parent, name)

RECURSIVE getInfixStatus(_, _, _)
getInfixStatus(heap, state, name) ==
    IF state = NoState THEN Undefined
    ELSE IF name \in DOMAIN heap[state].infixEnvironment THEN heap[state].infixEnvironment[name]
    ELSE getInfixStatus(heap, heap[state].parent, name)

RECURSIVE getValueIdentifierId(_, _, _)
getValueIdentifierId(heap, state, name) ==
    IF state = NoState THEN 0
    ELSE IF name \in DOMAIN heap[state].valueIdentifierId THEN heap[state].valueIdentifierId[name]
    ELSE getValueIdentifierId(heap, heap[state].parent, name)

RECURSIVE getRebindStatus(_, _, _)
getRebindStatus(heap, state, name) ==
    IF state = NoState THEN "Allowed"
    ELSE IF name \in DOMAIN heap[state].rebindEnvironment THEN heap[state].rebindEnvironment[name]
    ELSE getRebindStatus(heap, heap[state].parent, name)

\* writes always go to the innermost frame
setDynamicValue(w, state, name, value) ==
    [w EXCEPT !.heap[state].dynamicValue = Put(@, name, value)]

DynamicType(constructors) == [k |-> "DynamicType", constructors |-> constructors]

setDynamicType(w, state, name, type) ==
    [w EXCEPT !.heap[state].dynamicType = Put(@, name, type)]

setInfixStatus(w, state, name, precedence, rightAssociative, infix) ==
    [w EXCEPT !.heap[state].infixEnvironment =
        Put(@, name, [precedence |-> precedence, rightAssociative |-> rightAssociative,
                      infix |-> infix])]

incrementValueIdentifierId(w, state, name) ==
    [w EXCEPT !.heap[state].valueIdentifierId =
        Put(@, name, getValueIdentifierId(w.heap, state, name) + 1)]

(* --------------------- results and the event log ----------------------- *)

\* The world threaded through an evaluation: the heap of frames plus the
\* events observed during the current top-level call.
\*   rhs    : right-hand sides evaluated (frame, lookups visible at that time)
\*   apps   : function applications (FunctionValue.compute)
\*   intros : constructors introduced (name, id)
\*   abs    : abstype declarations (frame, constructors, lookups while the
\*            inner declaration starts)
\*   steps  : completed iterations of SequentialDeclaration.evaluate
NoEvents == [rhs |-> <<>>, apps |-> <<>>, intros |-> <<>>, abs |-> <<>>, steps |-> <<>>]

\* result of an expression: [value, threw]; err names a thrown host error
\* ("" when none), which unwinds the whole call
XResult(w, val, threw) == [w |-> w, val |-> val, threw |-> threw, err |-> ""]

XError(w, err) == [w |-> w, val |-> Undefined, threw |-> FALSE, err |-> err]

\* result of Declaration.evaluate: [State, boolean, Value | undefined]
DResult(w, st, threw, val) == [w |-> w, st |-> st, threw |-> threw, val |-> val, err |-> ""]

DError(w, err) == [w |-> w, st |-> NoState, threw |-> FALSE, val |-> Undefined, err |-> err]

(* ----------------------------- expressions ----------------------------- *)

Constant(n) == [e |-> "Constant", n |-> n]

ValueIdentifier(name) == [e |-> "ValueIdentifier", name |-> name]

Wildcard == [e |-> "Wildcard"]

Raise(exp) == [e |-> "Raise", expression |-> exp]

\* a Match is a sequence of rules <<pattern, expression>>
Lambda(match) == [e |-> "Lambda", match |-> match]

FunctionApplication(func, argument) ==
    [e |-> "FunctionApplication", func |-> func, argument |-> argument]

Tuple(entries) == [e |-> "Tuple", entries |-> entries]

\* entries: a sequence of <<label, expression>>
Record(complete, entries) == [e |-> "Record", complete |-> complete, entries |-> entries]

List(entries) == [e |-> "List", entries |-> entries]

CaseAnalysis(expression, match) ==
    [e |-> "CaseAnalysis", expression |-> expression, match |-> match]

TypedExpression(expression, typeAnnotation) ==
    [e |-> "TypedExpression", expression |-> expression, typeAnnotation |-> typeAnnotation]

Conditional(condition, consequence, alternative) ==
    [e |-> "Conditional", condition |-> condition, consequence |-> consequence,
     alternative |-> alternative]

Conjunction(leftOperand, rightOperand) ==
    [e |-> "Conjunction", leftOperand |-> leftOperand, rightOperand |-> rightOperand]

Disjunction(leftOperand, rightOperand) ==
    [e |-> "Disjunction", leftOperand |-> leftOperand, rightOperand |-> rightOperand]

LocalDeclarationExpression(declaration, expression) ==
    [e |-> "LocalDeclarationExpression", declaration |-> declaration,
     expression |-> expression]

CustomType(name) == [t |-> "CustomType", name |-> name]

TypeVariable(name) == [t |-> "TypeVariable", name |-> name]

TupleType(elements) == [t |-> "TupleType", elements |-> elements]

FunctionType(parameterType, returnType) ==
    [t |-> "FunctionType", parameterType |-> parameterType, returnType |-> returnType]

NoMatch == [ok |-> FALSE, ve |-> <<>>]

RECURSIVE matches(_, _, _, _)
RECURSIVE Record_matches(_, _, _, _, _)

\* the labels of a record pattern or expression
Labels(record) == {record.entries[i][1] : i \in 1..Len(record.entries)}

\* both parts match: the bindings of the first, then those of the second
Both(first, rest) ==
    IF first.ok /\ rest.ok THEN [ok |-> TRUE, ve |-> first.ve \o rest.ve] ELSE NoMatch

\* C p: v was built by the constructor C, and p matches its argument
Applied_matches(heap, state, b, pattern, v) ==
    IF /\ b.k = "ValueConstructor" /\ v.k = "ConstructedValue"
       /\ v.constructorName = b.constructorName /\ v.id = b.id
       /\ v.argument.k # "undefined"
    THEN matches(heap, state, pattern.argument, v.argument)
    ELSE NoMatch

\* the entries of a record pattern from the i-th on, each against the entry of
\* v with its label
Record_matches(heap, state, pattern, v, i) ==
    IF i > Len(pattern.entries) THEN [ok |-> TRUE, ve |-> <<>>]
    ELSE IF pattern.entries[i][1] \notin DOMAIN v.entries THEN NoMatch
    ELSE Both(matches(heap, state, pattern.entries[i][2], v.entries[pattern.entries[i][1]]),
              Record_matches(heap, state, pattern, v, i + 1))

\* Pattern.matches: wildcard, constant, typed pattern, record, applied
\* constructor, constructor, variable
matches(heap, state, pattern, v) ==
    IF pattern.e = "Wildcard" THEN [ok |-> TRUE, ve |-> <<>>]
    ELSE IF pattern.e = "Constant"
         THEN IF v.k = "Integer" /\ v.value = pattern.n
              THEN [ok |-> TRUE, ve |-> <<>>] ELSE NoMatch
    ELSE IF pattern.e = "TypedExpression"
         THEN matches(heap, state, pattern.expression, v)
    ELSE IF pattern.e = "Record"
         THEN IF v.k # "RecordValue" THEN NoMatch
              ELSE IF pattern.complete /\ Labels(pattern) # DOMAIN v.entries THEN NoMatch
              ELSE Record_matches(heap, state, pattern, v, 1)
    ELSE IF pattern.e = "FunctionApplication"
         THEN Applied_matches(heap, state, getDynamicValue(heap, state, pattern.func.name),
                              pattern, v)
    ELSE LET b == getDynamicValue(heap, state, pattern.name)
         IN  IF b.k = "ValueConstructor"
             THEN IF v.k = "ConstructedValue" /\ v.constructorName = b.constructorName
                     /\ v.id = b.id /\ v.argument.k = "undefined"
                  THEN [ok |-> TRUE, ve |-> <<>>] ELSE NoMatch
             ELSE [ok |-> TRUE, ve |-> << <<pattern.name, v>> >>]

RECURSIVE SetAll(_, _, _, _)
SetAll(w, state, ve, j) ==
    IF j > Len(ve) THEN w
    ELSE SetAll(setDynamicValue(w, state, ve[j][1], ve[j][2]), state, ve, j + 1)

RECURSIVE compute(_, _, _, _)
RECURSIVE Match_compute(_, _, _, _, _, _)
RECURSIVE FunctionValue_compute(_, _, _, _)
RECURSIVE Record_compute(_, _, _, _, _, _)

\* a re-adjoined closure that forgets its siblings
FunctionValue_rebuild_noSiblings(this, i) ==
    FunctionValue(this.state, <<>>, this.recursives[i][2].body)

\* the closure that FunctionValue.compute binds for sibling i
FunctionValue_rebuild(this, i) ==
    FunctionValue(this.state, this.recursives, this.recursives[i][2].body)

\* the frame FunctionValue.compute writes the sibling bindings to
FunctionValue_target(this, nstate) == nstate

RECURSIVE FunctionValue_adjoin(_, _, _, _)
FunctionValue_adjoin(w, this, nstate, i) ==
    IF i > Len(this.recursives) THEN w
    ELSE LET name == this.recursives[i][1]
             v == IF this.recursives[i][2].k = "FunctionValue"
                  THEN FunctionValue_rebuild(this, i)
                  ELSE this.recursives[i][2]
         IN  FunctionValue_adjoin(
                 setDynamicValue(w, FunctionValue_target(this, nstate), name, v),
                 this, nstate, i + 1)

\* the application is recorded once the body has returned
FunctionValue_applied(r, this, nstate, capBefore) ==
    [r EXCEPT !.w.apps = Append(@, [fn |-> this, nstate |-> nstate,
                                    capBefore |-> capBefore,
                                    capAfter  |-> r.w.heap[this.state]])]

FunctionValue_compute(w, this, argument, fuel) ==
    LET n == getNestedState(w, this.state, w.heap[this.state].id)
    IN  FunctionValue_applied(
            Match_compute(FunctionValue_adjoin(n.w, this, n.st, 1),
                          this.body, n.st, argument, 1, fuel),
            this, n.st, w.heap[this.state])

Match_compute(w, match, state, value, i, fuel) ==
    IF i > Len(match) THEN XResult(w, ExceptionValue("Match", Undefined, 0), TRUE)
    ELSE LET n   == getNestedState(w, state, w.heap[state].id)
             res == matches(n.w.heap, n.st, match[i][1], value)
         IN  IF res.ok
             THEN compute(SetAll(n.w, n.st, res.ve, 1), match[i][2], n.st, fuel)
             ELSE Match_compute(n.w, match, state, value, i + 1, fuel)

\* Raise.compute, r being the computed operand
Raise_compute(r) ==
    IF r.err # "" \/ r.threw THEN r
    ELSE IF r.val.k # "ExceptionValue" THEN XError(r.w, "EvaluationError")
    ELSE XResult(r.w, r.val, TRUE)

\* FunctionApplication.compute, f and a being the computed function and argument
FunctionApplication_call(f, a, fuel) ==
    IF a.err # "" \/ a.threw THEN a
    ELSE IF f.val.k = "ValueConstructor"
         THEN XResult(a.w, ValueConstructor_construct(f.val, a.val), FALSE)
    ELSE IF f.val.k = "ExceptionConstructor"
         THEN XResult(a.w, ExceptionConstructor_construct(f.val, a.val), FALSE)
    ELSE IF f.val.k # "FunctionValue" THEN XError(a.w, "EvaluationError")
    ELSE IF fuel = 0 THEN XError(a.w, "NonTermination")
    ELSE FunctionValue_compute(a.w, f.val, a.val, fuel - 1)

FunctionApplication_compute(f, exp, state, fuel) ==
    IF f.err # "" \/ f.threw THEN f
    ELSE FunctionApplication_call(f, compute(f.w, exp.argument, state, fuel), fuel)

\* CaseAnalysis.compute, r being the computed expression: the clauses are
\* tried in order on its value
CaseAnalysis_compute(r, exp, state, fuel) ==
    IF r.err # "" \/ r.threw THEN r
    ELSE Match_compute(r.w, exp.match, state, r.val, 1, fuel)

\* the entry computed last joins the entries computed before it
Record_entry(r, exp, state, fuel, i, entries) ==
    IF r.err # "" \/ r.threw THEN r
    ELSE Record_compute(r.w, exp, state, fuel, i + 1, Put(entries, exp.entries[i][1], r.val))

\* Record.compute: the entries are computed in the order they are written
Record_compute(w, exp, state, fuel, i, entries) ==
    IF i > Len(exp.entries) THEN XResult(w, RecordValue(entries), FALSE)
    ELSE Record_entry(compute(w, exp.entries[i][2], state, fuel), exp, state, fuel, i, entries)

compute(w, exp, state, fuel) ==
    CASE exp.e = "Constant" -> XResult(w, Integer(exp.n), FALSE)
      [] exp.e = "ValueIdentifier" ->
            LET v == getDynamicValue(w.heap, state, exp.name)
            IN  IF v.k = "undefined" THEN XError(w, "EvaluationError")
                ELSE IF v.k = "ValueConstructor" /\ v.numArgs = 0
                     THEN XResult(w, ConstructedValue(v.constructorName, Undefined, v.id), FALSE)
                ELSE IF v.k = "ExceptionConstructor" /\ v.numArgs = 0
                     THEN XResult(w, ExceptionValue(v.exceptionName, Undefined, v.id), FALSE)
                ELSE XResult(w, v, FALSE)
      [] exp.e = "Raise" -> Raise_compute(compute(w, exp.expression, state, fuel))
      [] exp.e = "Lambda" -> XResult(w, FunctionValue(state, <<>>, exp.match), FALSE)
      [] exp.e = "FunctionApplication" ->
            FunctionApplication_compute(compute(w, exp.func, state, fuel), exp, state, fuel)
      [] exp.e = "CaseAnalysis" ->
            CaseAnalysis_compute(compute(w, exp.expression, state, fuel), exp, state, fuel)
      [] exp.e = "Record" -> Record_compute(w, exp, state, fuel, 1, EmptyMap)
      [] exp.e = "TypedExpression" -> compute(w, exp.expression, state, fuel)

(* ----------------------------- observation ----------------------------- *)

\* the identifiers, type names and operators the programs below use
Names == {"x", "y", "a", "c", "f", "g", "r", "A", "true", "Div"}

TypeNames == {"t", "u", "bool"}

Operators == {"++"}

\* every lookup a caller can make on a state
Observe(heap, state) ==
    [dynamicValue |-> [n \in Names |-> getDynamicValue(heap, state, n)],
     dynamicType  |-> [n \in TypeNames |-> getDynamicType(heap, state, n)],
     infix        |-> [n \in Operators |-> getInfixStatus(heap, state, n)],
     valueIdentifierId |-> [n \in Names |-> getValueIdentifierId(heap, state, n)]]

(* ----------------------------- declarations ---------------------------- *)

ValueBinding(isRecursive, pattern, expression) ==
    [isRecursive |-> isRecursive, pattern |-> pattern, expression |-> expression]

ValueDeclaration(valueBinding, id) ==
    [d |-> "ValueDeclaration", valueBinding |-> valueBinding, id |-> id]

\* type: sequence of <<constructor name, has argument type>>
DatatypeBinding(name, type) == [name |-> name, type |-> type]

DatatypeDeclaration(datatypeBinding, id) ==
    [d |-> "DatatypeDeclaration", datatypeBinding |-> datatypeBinding, id |-> id]

DatatypeReplication(name, oldname, id) ==
    [d |-> "DatatypeReplication", name |-> name, oldname |-> oldname, id |-> id]

AbstypeDeclaration(datatypeBinding, declaration, id) ==
    [d |-> "AbstypeDeclaration", datatypeBinding |-> datatypeBinding,
     declaration |-> declaration, id |-> id]

DirectExceptionBinding(name, hasType) ==
    [b |-> "DirectExceptionBinding", name |-> name, hasType |-> hasType]

ExceptionAlias(name, oldname) ==
    [b |-> "ExceptionAlias", name |-> name, oldname |-> oldname]

ExceptionDeclaration(bindings, id) ==
    [d |-> "ExceptionDeclaration", bindings |-> bindings, id |-> id]

LocalDeclaration(declaration, body, id) ==
    [d |-> "LocalDeclaration", declaration |-> declaration, body |-> body, id |-> id]

EmptyDeclaration(id) == [d |-> "EmptyDeclaration", id |-> id]

SequentialDeclaration(declarations, id) ==
    [d |-> "SequentialDeclaration", declarations |-> declarations, id |-> id]

InfixDeclaration(operators, precedence, id) ==
    [d |-> "InfixDeclaration", operators |-> operators, precedence |-> precedence, id |-> id]

InfixRDeclaration(operators, precedence, id) ==
    [d |-> "InfixRDeclaration", operators |-> operators, precedence |-> precedence, id |-> id]

NonfixDeclaration(operators, id) ==
    [d |-> "NonfixDeclaration", operators |-> operators, id |-> id]

\* type t = type
TypeBinding(name, type) == [name |-> name, type |-> type]

TypeDeclaration(typeBinding, id) ==
    [d |-> "TypeDeclaration", typeBinding |-> typeBinding, id |-> id]

OpenDeclaration(names, id) == [d |-> "OpenDeclaration", names |-> names, id |-> id]

FunctionValueBinding(parameters, name) == [parameters |-> parameters, name |-> name]

FunctionDeclaration(functionValueBinding, id) ==
    [d |-> "FunctionDeclaration", functionValueBinding |-> functionValueBinding, id |-> id]

RECURSIVE evaluate(_, _, _, _)

\* ValueBinding.compute: [VE | undefined, exception | undefined]
ValueBinding_matched(v, this, state) ==
    IF v.err # "" THEN [w |-> v.w, ve |-> NoMatch, exc |-> Undefined, err |-> v.err]
    ELSE IF v.threw THEN [w |-> v.w, ve |-> NoMatch, exc |-> v.val, err |-> ""]
    ELSE [w |-> v.w, ve |-> matches(v.w.heap, state, this.pattern, v.val),
          exc |-> Undefined, err |-> ""]

ValueBinding_compute(w, this, state, fuel) ==
    ValueBinding_matched(
        compute([w EXCEPT !.rhs = Append(@, [state |-> state,
                           visible |-> Observe(w.heap, state).dynamicValue])],
                this.expression, state, fuel),
        this, state)

\* the value ValueDeclaration.evaluate stores for the j-th recursive binding
ValueDeclaration_recursiveValue(recursives, j) ==
    IF recursives[j][2].k = "FunctionValue"
    THEN FunctionValue(recursives[j][2].state, recursives, recursives[j][2].body)
    ELSE recursives[j][2]

RECURSIVE ValueDeclaration_setRecursives(_, _, _, _)
ValueDeclaration_setRecursives(w, state, recursives, j) ==
    IF j > Len(recursives) THEN w
    ELSE ValueDeclaration_setRecursives(
             setDynamicValue(w, state, recursives[j][1],
                             ValueDeclaration_recursiveValue(recursives, j)),
             state, recursives, j + 1)

RECURSIVE ValueDeclaration_loop(_, _, _, _, _, _, _, _)

\* writing the bindings of binding i as soon as it has matched
ValueDeclaration_collect_eager(val, this, state, i, isRec, result, recursives, fuel) ==
    IF val.err # "" THEN DError(val.w, val.err)
    ELSE IF val.exc.k # "undefined" THEN DResult(val.w, state, TRUE, val.exc)
    ELSE IF ~val.ve.ok
         THEN DResult(val.w, state, TRUE, ExceptionValue("Bind", Undefined, 0))
    ELSE ValueDeclaration_loop(SetAll(val.w, state, val.ve.ve, 1), this, state, i + 1, isRec,
             IF isRec THEN result ELSE result \o val.ve.ve,
             IF isRec THEN recursives \o val.ve.ve ELSE recursives, fuel)

\* the first loop of ValueDeclaration.evaluate, val being the computed binding i
ValueDeclaration_collect(val, this, state, i, isRec, result, recursives, fuel) ==
    IF val.err # "" THEN DError(val.w, val.err)
    ELSE IF val.exc.k # "undefined" THEN DResult(val.w, state, TRUE, val.exc)
    ELSE IF ~val.ve.ok
         THEN DResult(val.w, state, TRUE, ExceptionValue("Bind", Undefined, 0))
    ELSE ValueDeclaration_loop(val.w, this, state, i + 1, isRec,
             IF isRec THEN result ELSE result \o val.ve.ve,
             IF isRec THEN recursives \o val.ve.ve ELSE recursives, fuel)

ValueDeclaration_loop(w, this, state, i, isRec, result, recursives, fuel) ==
    IF i > Len(this.valueBinding)
    THEN DResult(ValueDeclaration_setRecursives(SetAll(w, state, result, 1),
                                                state, recursives, 1),
                 state, FALSE, Undefined)
    ELSE ValueDeclaration_collect(
             ValueBinding_compute(w, this.valueBinding[i], state, fuel),
             this, state, i, isRec \/ this.valueBinding[i].isRecursive,
             result, recursives, fuel)

ValueDeclaration_evaluate(w, this, state, fuel) ==
    ValueDeclaration_loop(w, this, state, 1, FALSE, <<>>, <<>>, fuel)

\* DatatypeBinding.compute: [[name, ValueConstructor][], [type name, names]]
RECURSIVE DatatypeBinding_loop(_, _, _, _, _, _)
DatatypeBinding_loop(w, this, state, i, ve, connames) ==
    IF i > Len(this.type) THEN [w |-> w, ve |-> ve, ty |-> <<this.name, connames>>]
    ELSE LET name   == this.type[i][1]
             numArg == IF this.type[i][2] THEN 1 ELSE 0
             id     == getValueIdentifierId(w.heap, state, name)
             w1     == incrementValueIdentifierId(w, state, name)
             w2     == [w1 EXCEPT !.intros = Append(@, [name |-> name, id |-> id])]
         IN  DatatypeBinding_loop(w2, this, state, i + 1,
                 Append(ve, <<name, ValueConstructor(name, numArg, id)>>),
                 Append(connames, name))

DatatypeBinding_compute(w, this, state) == DatatypeBinding_loop(w, this, state, 1, <<>>, <<>>)

\* the inner loop of DatatypeDeclaration.evaluate; ok = FALSE when it threw
RECURSIVE DatatypeDeclaration_setAll(_, _, _, _)
DatatypeDeclaration_setAll(w, state, ve, j) ==
    IF j > Len(ve) THEN [w |-> w, ok |-> TRUE]
    ELSE IF getRebindStatus(w.heap, state, ve[j][1]) = "Never" THEN [w |-> w, ok |-> FALSE]
    ELSE DatatypeDeclaration_setAll(setDynamicValue(w, state, ve[j][1], ve[j][2]),
                                    state, ve, j + 1)

RECURSIVE DatatypeDeclaration_loop(_, _, _, _)
DatatypeDeclaration_loop(w, this, state, i) ==
    IF i > Len(this.datatypeBinding) THEN DResult(w, state, FALSE, Undefined)
    ELSE LET res == DatatypeBinding_compute(w, this.datatypeBinding[i], state)
             set == DatatypeDeclaration_setAll(res.w, state, res.ve, 1)
         IN  IF ~set.ok THEN DError(set.w, "EvaluationError")
             ELSE DatatypeDeclaration_loop(
                      setDynamicType(set.w, state, res.ty[1], DynamicType(res.ty[2])), this, state, i + 1)

DatatypeDeclaration_evaluate(w, this, state) == DatatypeDeclaration_loop(w, this, state, 1)

\* TypeDeclaration.evaluate: every name is bound to the empty constructor list
RECURSIVE TypeDeclaration_loop(_, _, _, _)
TypeDeclaration_loop(w, this, state, i) ==
    IF i > Len(this.typeBinding) THEN DResult(w, state, FALSE, Undefined)
    ELSE TypeDeclaration_loop(
             setDynamicType(w, state, this.typeBinding[i].name, DynamicType(<<>>)),
             this, state, i + 1)

TypeDeclaration_evaluate(w, this, state) == TypeDeclaration_loop(w, this, state, 1)

DatatypeReplication_evaluate(w, this, state) ==
    LET res == getDynamicType(w.heap, state, this.oldname)
    IN  IF res.k = "undefined" THEN DError(w, "EvaluationError")
        ELSE DResult(setDynamicType(w, state, this.name, res), state, FALSE, Undefined)

RECURSIVE AbstypeDeclaration_loop(_, _, _, _)
AbstypeDeclaration_loop(w, this, state, i) ==
    IF i > Len(this.datatypeBinding) THEN w
    ELSE LET res == DatatypeBinding_compute(w, this.datatypeBinding[i], state)
         IN  AbstypeDeclaration_loop(SetAll(res.w, state, res.ve, 1), this, state, i + 1)

\* the constructor names of a sequence of datatype bindings, in order
RECURSIVE ConstructorNames(_)
ConstructorNames(datatypeBinding) ==
    IF datatypeBinding = <<>> THEN <<>>
    ELSE [j \in 1..Len(Head(datatypeBinding).type) |-> Head(datatypeBinding).type[j][1]]
         \o ConstructorNames(Tail(datatypeBinding))

AbstypeDeclaration_evaluate(w, this, state, fuel) ==
    LET before == Observe(w.heap, state).dynamicValue
        w1 == AbstypeDeclaration_loop(w, this, state, 1)
        w2 == [w1 EXCEPT !.abs = Append(@,
                   [state |-> state, constructors |-> ConstructorNames(this.datatypeBinding),
                    before |-> before,
                    during |-> Observe(w1.heap, state).dynamicValue])]
    IN  evaluate(w2, this.declaration, state, fuel)

DirectExceptionBinding_evaluate(w, this, state) ==
    LET numArg == IF this.hasType THEN 1 ELSE 0
        id     == getValueIdentifierId(w.heap, state, this.name)
        w1     == incrementValueIdentifierId(w, state, this.name)
    IN  IF getRebindStatus(w1.heap, state, this.name) = "Never"
        THEN DError(w1, "EvaluationError")
        ELSE DResult(setDynamicValue(
                         [w1 EXCEPT !.intros = Append(@, [name |-> this.name, id |-> id])],
                         state, this.name, ExceptionConstructor(this.name, numArg, id)),
                     state, FALSE, Undefined)

ExceptionAlias_evaluate(w, this, state) ==
    LET res == getDynamicValue(w.heap, state, this.oldname)
    IN  IF res.k = "undefined" THEN DError(w, "EvaluationError")
        ELSE DResult(setDynamicValue(w, state, this.name, res), state, FALSE, Undefined)

ExceptionBinding_evaluate(w, this, state) ==
    IF this.b = "DirectExceptionBinding" THEN DirectExceptionBinding_evaluate(w, this, state)
    ELSE ExceptionAlias_evaluate(w, this, state)

RECURSIVE ExceptionDeclaration_loop(_, _, _, _)
ExceptionDeclaration_loop(w, this, state, i) ==
    IF i > Len(this.bindings) THEN DResult(w, state, FALSE, Undefined)
    ELSE LET res == ExceptionBinding_evaluate(w, this.bindings[i], state)
         IN  IF res.err # "" \/ res.threw THEN res
             ELSE ExceptionDeclaration_loop(res.w, this, res.st, i + 1)

ExceptionDeclaration_evaluate(w, this, state) == ExceptionDeclaration_loop(w, this, state, 1)

\* LocalDeclaration.evaluate, "Forget all local definitions": res[0].parent = state
LocalDeclaration_forget(w, res0, state) == [w EXCEPT !.heap[res0].parent = state]

LocalDeclaration_evaluate(w, this, state, fuel) ==
    LET n   == getNestedState(w, state, w.heap[state].id)
        res == evaluate(n.w, this.declaration, n.st, fuel)
    IN  IF res.err # "" THEN res
        ELSE IF res.threw THEN DResult(res.w, state, TRUE, res.val)
        ELSE LET n2   == getNestedState(res.w, res.st, res.w.heap[state].id)
                 res2 == evaluate(n2.w, this.body, n2.st, fuel)
             IN  IF res2.err # "" THEN res2
                 ELSE [res2 EXCEPT !.w = LocalDeclaration_forget(res2.w, res2.st, state)]

\* OpenDeclaration.evaluate: 'Yeah, you better wait a little before trying this again.'
OpenDeclaration_evaluate(w, this, state) == DError(w, "InternalInterpreterError")

\* Declaration.evaluate, which FunctionDeclaration inherits: 'Not yet implemented.'
Declaration_evaluate(w, this, state) == DError(w, "InternalInterpreterError")

EmptyDeclaration_evaluate(w, this, state) == DResult(w, state, FALSE, Undefined)

\* evaluating declaration i in the state itself instead of a nested one
SequentialDeclaration_nested_inPlace(w, state, id) == [w |-> w, st |-> state]

\* the state SequentialDeclaration.evaluate evaluates declaration i in
SequentialDeclaration_nested(w, state, id) == getNestedState(w, state, id)

RECURSIVE SequentialDeclaration_loop(_, _, _, _, _)
SequentialDeclaration_loop(w, this, state, i, fuel) ==
    IF i > Len(this.declarations) THEN DResult(w, state, FALSE, Undefined)
    ELSE LET n   == SequentialDeclaration_nested(w, state, this.declarations[i].id)
             res == evaluate(n.w, this.declarations[i], n.st, fuel)
             ev  == [seq |-> this.id, i |-> i, nstate |-> n.st, state |-> res.st,
                     threw |-> res.threw,
                     before |-> Observe(w.heap, state),
                     after |-> Observe(res.w.heap, res.st)]
         IN  IF res.err # "" THEN res
             ELSE IF res.threw THEN [res EXCEPT !.w.steps = Append(@, ev)]
             ELSE SequentialDeclaration_loop([res.w EXCEPT !.steps = Append(@, ev)],
                                             this, res.st, i + 1, fuel)

SequentialDeclaration_evaluate(w, this, state, fuel) ==
    SequentialDeclaration_loop(w, this, state, 1, fuel)

\* a directive that reaches the outermost frame instead of the current one
RECURSIVE InfixDeclaration_loop_global(_, _, _, _, _, _)
InfixDeclaration_loop_global(w, this, state_, i, rightAssociative, infix) ==
    IF i > Len(this.operators) THEN DResult(w, state_, FALSE, Undefined)
    ELSE InfixDeclaration_loop_global(
             setInfixStatus(w, 1, this.operators[i],
                            IF infix THEN this.precedence ELSE 0, rightAssociative, infix),
             this, state_, i + 1, rightAssociative, infix)

RECURSIVE InfixDeclaration_loop(_, _, _, _, _, _)
InfixDeclaration_loop(w, this, state, i, rightAssociative, infix) ==
    IF i > Len(this.operators) THEN DResult(w, state, FALSE, Undefined)
    ELSE InfixDeclaration_loop(
             setInfixStatus(w, state, this.operators[i],
                            IF infix THEN this.precedence ELSE 0, rightAssociative, infix),
             this, state, i + 1, rightAssociative, infix)

InfixDeclaration_evaluate(w, this, state) == InfixDeclaration_loop(w, this, state, 1, FALSE, TRUE)

InfixRDeclaration_evaluate(w, this, state) == InfixDeclaration_loop(w, this, state, 1, TRUE, TRUE)

NonfixDeclaration_evaluate(w, this, state) == InfixDeclaration_loop(w, this, state, 1, FALSE, FALSE)

\* Declaration.evaluate, dispatched on the class of the node
evaluate(w, this, state, fuel) ==
    CASE this.d = "ValueDeclaration"      -> ValueDeclaration_evaluate(w, this, state, fuel)
      [] this.d = "DatatypeDeclaration"   -> DatatypeDeclaration_evaluate(w, this, state)
      [] this.d = "DatatypeReplication"   -> DatatypeReplication_evaluate(w, this, state)
      [] this.d = "AbstypeDeclaration"    -> AbstypeDeclaration_evaluate(w, this, state, fuel)
      [] this.d = "ExceptionDeclaration"  -> ExceptionDeclaration_evaluate(w, this, state)
      [] this.d = "LocalDeclaration"      -> LocalDeclaration_evaluate(w, this, state, fuel)
      [] this.d = "EmptyDeclaration"      -> EmptyDeclaration_evaluate(w, this, state)
      [] this.d = "SequentialDeclaration" -> SequentialDeclaration_evaluate(w, this, state, fuel)
      [] this.d = "InfixDeclaration"      -> InfixDeclaration_evaluate(w, this, state)
      [] this.d = "InfixRDeclaration"     -> InfixRDeclaration_evaluate(w, this, state)
      [] this.d = "NonfixDeclaration"     -> NonfixDeclaration_evaluate(w, this, state)
      [] this.d = "TypeDeclaration"       -> TypeDeclaration_evaluate(w, this, state)
      [] this.d = "OpenDeclaration"       -> OpenDeclaration_evaluate(w, this, state)
      [] this.d = "FunctionDeclaration"   -> Declaration_evaluate(w, this, state)

(* ---------------------------- simplification --------------------------- *)
(* Declaration.simplify (declarations.ts) and the simplify of expressions  *)
(* and patterns.  A clause of a fun is <<patterns, type or Undefined,      *)
(* body>>.  A throw is the result InternalInterpreterError.                *)

InternalInterpreterError == [e |-> "InternalInterpreterError"]

Digits == <<"0", "1", "2", "3", "4", "5", "6", "7", "8", "9">>

\* '' + i for i >= 0
RECURSIVE toString(_)
toString(i) ==
    IF i < 10 THEN Digits[i + 1]
    ELSE toString(i \div 10) \o Digits[(i % 10) + 1]

\* new IdentifierToken('__arg' + i, -1)
IdentifierToken(i) == "__arg" \o toString(i)

\* whole, unless the simplification of one of its parts has thrown
Unless(parts, whole) ==
    IF \E i \in DOMAIN parts : parts[i] = InternalInterpreterError
    THEN InternalInterpreterError
    ELSE whole

\* the patterns and bodies of a match, as one sequence of parts
Rules(match) ==
    [j \in 1..(2 * Len(match)) |-> match[(j + 1) \div 2][IF j % 2 = 1 THEN 1 ELSE 2]]

RECURSIVE Expression_simplify(_)
RECURSIVE simplify(_)

Match_simplify(match) ==
    [i \in 1..Len(match) |->
        <<Expression_simplify(match[i][1]), Expression_simplify(match[i][2])>>]

\* (e1, ..., en) is the record with the labels 1..n
Tuple_simplified(entries) ==
    Unless(entries, Record(TRUE, [i \in 1..Len(entries) |-> <<toString(i), entries[i]>>]))

Record_simplified(this, entries) ==
    Unless(entries,
           Record(this.complete,
                  [i \in 1..Len(entries) |-> <<this.entries[i][1], entries[i]>>]))

\* [e1, ..., en] is e1 :: ... :: en :: nil
RECURSIVE List_simplify(_, _)
List_simplify(entries, i) ==
    IF i > Len(entries) THEN ValueIdentifier("nil")
    ELSE Unless(<<entries[i], List_simplify(entries, i + 1)>>,
                FunctionApplication(ValueIdentifier("::"),
                    Record(TRUE, << <<"1", entries[i]>>,
                                    <<"2", List_simplify(entries, i + 1)>> >>)))

Lambda_simplified(match) == Unless(Rules(match), Lambda(match))

CaseAnalysis_simplified(expression, match) ==
    Unless(<<expression>> \o Rules(match), CaseAnalysis(expression, match))

TypedExpression_simplified(this, expression) ==
    Unless(<<expression>>, TypedExpression(expression, this.typeAnnotation))

FunctionApplication_simplified(func, argument) ==
    Unless(<<func, argument>>, FunctionApplication(func, argument))

Raise_simplified(expression) == Unless(<<expression>>, Raise(expression))

\* if c then t else e is case c of true => t | false => e
Conditional_simplified(condition, consequence, alternative) ==
    Unless(<<condition, consequence, alternative>>,
           CaseAnalysis(condition, << <<ValueIdentifier("true"), consequence>>,
                                      <<ValueIdentifier("false"), alternative>> >>))

LocalDeclarationExpression_simplified(declaration, expression) ==
    Unless(<<declaration, expression>>, LocalDeclarationExpression(declaration, expression))

\* simplify of an expression or pattern
Expression_simplify(this) ==
    CASE this.e = "Tuple" ->
             Tuple_simplified([i \in 1..Len(this.entries) |->
                                  Expression_simplify(this.entries[i])])
      [] this.e = "Record" ->
             Record_simplified(this, [i \in 1..Len(this.entries) |->
                                         Expression_simplify(this.entries[i][2])])
      [] this.e = "List" ->
             List_simplify([i \in 1..Len(this.entries) |->
                               Expression_simplify(this.entries[i])], 1)
      [] this.e = "Lambda" -> Lambda_simplified(Match_simplify(this.match))
      [] this.e = "CaseAnalysis" ->
             CaseAnalysis_simplified(Expression_simplify(this.expression),
                                     Match_simplify(this.match))
      [] this.e = "TypedExpression" ->
             TypedExpression_simplified(this, Expression_simplify(this.expression))
      [] this.e = "FunctionApplication" ->
             FunctionApplication_simplified(Expression_simplify(this.func),
                                            Expression_simplify(this.argument))
      [] this.e = "Raise" -> Raise_simplified(Expression_simplify(this.expression))
      [] this.e = "Conditional" ->
             Conditional_simplified(Expression_simplify(this.condition),
                                    Expression_simplify(this.consequence),
                                    Expression_simplify(this.alternative))
      \* a andalso b is if a then b else false
      [] this.e = "Conjunction" ->
             Expression_simplify(Conditional(this.leftOperand, this.rightOperand,
                                             ValueIdentifier("false")))
      \* a orelse b is if a then true else b
      [] this.e = "Disjunction" ->
             Expression_simplify(Conditional(this.leftOperand, ValueIdentifier("true"),
                                             this.rightOperand))
      [] this.e = "LocalDeclarationExpression" ->
             LocalDeclarationExpression_simplified(simplify(this.declaration),
                                                   Expression_simplify(this.expression))
      [] OTHER -> this

\* arr: the identifiers __arg0 .. __arg(n-1)
FunctionValueBinding_arr(this) ==
    [i \in 1..Len(this.parameters[1][1]) |-> ValueIdentifier(IdentifierToken(i - 1))]

\* matches: one rule per clause
FunctionValueBinding_matches(this) ==
    [i \in 1..Len(this.parameters) |->
        <<IF Len(this.parameters[i][1]) = 1 THEN this.parameters[i][1][1]
          ELSE Tuple(this.parameters[i][1]),
          IF this.parameters[i][2] = Undefined THEN this.parameters[i][3]
          ELSE TypedExpression(this.parameters[i][3], this.parameters[i][2])>>]

\* the lambdas around exp, for i = n - 1 down to 0; i counts from 1 here
RECURSIVE FunctionValueBinding_lambdas(_, _)
FunctionValueBinding_lambdas(exp, i) ==
    IF i < 1 THEN exp
    ELSE FunctionValueBinding_lambdas(
             Lambda(<< <<ValueIdentifier(IdentifierToken(i - 1)), exp>> >>), i - 1)

\* a simplification that wraps the lambdas in the opposite order
RECURSIVE FunctionValueBinding_lambdas_outward(_, _)
FunctionValueBinding_lambdas_outward(exp, i) ==
    IF i < 1 THEN exp
    ELSE Lambda(<< <<ValueIdentifier(IdentifierToken(i - 1)),
                     FunctionValueBinding_lambdas_outward(exp, i - 1)>> >>)

\* new ValueBinding(this.position, true, this.name, exp.simplify())
FunctionValueBinding_bound(this, exp) == Unless(<<exp>>, ValueBinding(TRUE, this.name, exp))

FunctionValueBinding_simplify_outward(this) ==
    IF this.name = Undefined THEN InternalInterpreterError
    ELSE FunctionValueBinding_bound(this,
             Expression_simplify(
                 FunctionValueBinding_lambdas_outward(
                     CaseAnalysis(IF Len(FunctionValueBinding_arr(this)) # 1
                                  THEN Expression_simplify(Tuple(FunctionValueBinding_arr(this)))
                                  ELSE FunctionValueBinding_arr(this)[1],
                                  FunctionValueBinding_matches(this)),
                     Len(this.parameters[1][1]))))

FunctionValueBinding_simplify(this) ==
    IF this.name = Undefined THEN InternalInterpreterError
    ELSE FunctionValueBinding_bound(this,
             Expression_simplify(
                 FunctionValueBinding_lambdas(
                     CaseAnalysis(IF Len(FunctionValueBinding_arr(this)) # 1
                                  THEN Expression_simplify(Tuple(FunctionValueBinding_arr(this)))
                                  ELSE FunctionValueBinding_arr(this)[1],
                                  FunctionValueBinding_matches(this)),
                     Len(this.parameters[1][1]))))

FunctionDeclaration_simplified(this, valbnd) ==
    Unless(valbnd, ValueDeclaration(valbnd, this.id))

FunctionDeclaration_simplify(this) ==
    FunctionDeclaration_simplified(this,
        [i \in 1..Len(this.functionValueBinding) |->
            FunctionValueBinding_simplify(this.functionValueBinding[i])])

ValueBinding_simplified(this, pattern, expression) ==
    Unless(<<pattern, expression>>, ValueBinding(this.isRecursive, pattern, expression))

ValueDeclaration_simplified(this, valBnd) == Unless(valBnd, ValueDeclaration(valBnd, this.id))

ValueDeclaration_simplify(this) ==
    ValueDeclaration_simplified(this,
        [i \in 1..Len(this.valueBinding) |->
            ValueBinding_simplified(this.valueBinding[i],
                Expression_simplify(this.valueBinding[i].pattern),
                Expression_simplify(this.valueBinding[i].expression))])

AbstypeDeclaration_simplified(this, declaration) ==
    Unless(<<declaration>>, AbstypeDeclaration(this.datatypeBinding, declaration, this.id))

LocalDeclaration_simplified(this, declaration, body) ==
    Unless(<<declaration, body>>, LocalDeclaration(declaration, body, this.id))

SequentialDeclaration_simplified(this, decls) ==
    Unless(decls, SequentialDeclaration(decls, this.id))

\* Declaration.simplify, dispatched on the class of the node; a type
\* simplifies to itself, and so does every declaration made of types only
simplify(this) ==
    CASE this.d = "ValueDeclaration" -> ValueDeclaration_simplify(this)
      [] this.d = "FunctionDeclaration" -> FunctionDeclaration_simplify(this)
      [] this.d = "AbstypeDeclaration" ->
             AbstypeDeclaration_simplified(this, simplify(this.declaration))
      [] this.d = "LocalDeclaration" ->
             LocalDeclaration_simplified(this, simplify(this.declaration), simplify(this.body))
      [] this.d = "SequentialDeclaration" ->
             SequentialDeclaration_simplified(this,
                 [i \in 1..Len(this.declarations) |-> simplify(this.declarations[i])])
      [] OTHER -> this

(* ------------------------------ programs ------------------------------- *)

\* getInitialState: the built-ins the programs below refer to
InitialState ==
    [Frame(NoState, 0) EXCEPT
        !.dynamicValue = ("true" :> ValueConstructor("true", 0, 0))
                         @@ ("Div" :> ExceptionConstructor("Div", 0, 0)),
        !.dynamicType = ("bool" :> DynamicType(<<"true", "false">>)),
        !.rebindEnvironment = ("true" :> "Never")]

\* the matches of val rec f = fn 1 => g 0 | _ => 7 and g = fn 0 => f 0 | _ => 8
MatchF == << <<Constant(1), FunctionApplication(ValueIdentifier("g"), Constant(0))>>,
             <<Wildcard, Constant(7)>> >>

MatchG == << <<Constant(0), FunctionApplication(ValueIdentifier("f"), Constant(0))>>,
             <<Wildcard, Constant(8)>> >>

Val(name, exp, id) == ValueDeclaration(<<ValueBinding(FALSE, ValueIdentifier(name), exp)>>, id)

DatatypeTA(id) == DatatypeDeclaration(<<DatatypeBinding("t", << <<"A", FALSE>> >>)>>, id)

\* the declarations a session draws its chunks from, grouped by family, each
\* as the parser hands it to interpret
Catalogue ==
    [core |->
        { Val("x", Constant(1), 2),
          Val("x", Constant(2), 3),
          Val("y", ValueIdentifier("x"), 4),
          Val("y", Raise(ValueIdentifier("Div")), 5),
          InfixDeclaration(<<"++">>, 5, 6),
          NonfixDeclaration(<<"++">>, 7),
          DatatypeTA(8),
          DatatypeReplication("u", "t", 9) },
     local |->
        { Val("a", Constant(2), 2),
          \* local val a = 1 in val x = a; val c = 2 end
          LocalDeclaration(
              SequentialDeclaration(<<Val("a", Constant(1), 5)>>, 4),
              SequentialDeclaration(<<Val("x", ValueIdentifier("a"), 8),
                                      Val("c", Constant(2), 9)>>, 7), 3),
          Val("y", ValueIdentifier("x"), 11),
          \* local val a = 1 in val f = fn _ => a end
          LocalDeclaration(
              SequentialDeclaration(<<Val("a", Constant(1), 14)>>, 13),
              SequentialDeclaration(
                  <<Val("f", Lambda(<< <<Wildcard, ValueIdentifier("a")>> >>), 17)>>, 16), 12),
          Val("r", FunctionApplication(ValueIdentifier("f"), Constant(0)), 19) },
     constructors |->
        { DatatypeTA(2),
          Val("a", ValueIdentifier("A"), 3),
          \* local datatype t = A in val a = A end
          LocalDeclaration(
              SequentialDeclaration(<<DatatypeTA(6)>>, 5),
              SequentialDeclaration(<<Val("a", ValueIdentifier("A"), 9)>>, 8), 4),
          \* abstype t = A with val c = A end
          AbstypeDeclaration(<<DatatypeBinding("t", << <<"A", FALSE>> >>)>>,
              SequentialDeclaration(<<Val("c", ValueIdentifier("A"), 13)>>, 12), 11),
          ExceptionDeclaration(<<DirectExceptionBinding("A", FALSE)>>, 15),
          ExceptionDeclaration(<<ExceptionAlias("true", "Div")>>, 16),
          DatatypeDeclaration(<<DatatypeBinding("t", << <<"true", FALSE>> >>)>>, 17),
          ExceptionDeclaration(<<DirectExceptionBinding("true", FALSE)>>, 18) },
     binding |->
        { Val("x", Constant(1), 2),
          \* val 1 = 2
          ValueDeclaration(<<ValueBinding(FALSE, Constant(1), Constant(2))>>, 3),
          \* val 1 = 1
          ValueDeclaration(<<ValueBinding(FALSE, Constant(1), Constant(1))>>, 4),
          \* val x = 2 and 1 = 2
          ValueDeclaration(<<ValueBinding(FALSE, ValueIdentifier("x"), Constant(2)),
                             ValueBinding(FALSE, Constant(1), Constant(2))>>, 5),
          \* val x = 2 and y = raise Div
          ValueDeclaration(<<ValueBinding(FALSE, ValueIdentifier("x"), Constant(2)),
                             ValueBinding(FALSE, ValueIdentifier("y"),
                                          Raise(ValueIdentifier("Div")))>>, 6),
          \* val y = 3 and x = 2
          ValueDeclaration(<<ValueBinding(FALSE, ValueIdentifier("y"), Constant(3)),
                             ValueBinding(FALSE, ValueIdentifier("x"), Constant(2))>>, 7) },
     recursion |->
        { ValueDeclaration(<<ValueBinding(TRUE, ValueIdentifier("f"), Lambda(MatchF)),
                             ValueBinding(FALSE, ValueIdentifier("g"), Lambda(MatchG))>>, 2),
          Val("r", FunctionApplication(ValueIdentifier("f"), Constant(1)), 3),
          Val("r", FunctionApplication(ValueIdentifier("g"), Constant(1)), 4),
          Val("g", Lambda(<< <<ValueIdentifier("x"), ValueIdentifier("x")>> >>), 5),
          \* fun f 1 = g 0 | f _ = 7 and g 0 = f 0 | g _ = 8
          FunctionDeclaration(
              <<FunctionValueBinding(
                    << <<<<Constant(1)>>, Undefined,
                         FunctionApplication(ValueIdentifier("g"), Constant(0))>>,
                       <<<<Wildcard>>, Undefined, Constant(7)>> >>, ValueIdentifier("f")),
                FunctionValueBinding(
                    << <<<<Constant(0)>>, Undefined,
                         FunctionApplication(ValueIdentifier("f"), Constant(0))>>,
                       <<<<Wildcard>>, Undefined, Constant(8)>> >>, ValueIdentifier("g"))>>, 6),
          \* fun c (x : int) 0 = x | c x y = c y 0
          FunctionDeclaration(
              <<FunctionValueBinding(
                    << <<<<TypedExpression(ValueIdentifier("x"), CustomType("int")),
                           Constant(0)>>, Undefined, ValueIdentifier("x")>>,
                       <<<<ValueIdentifier("x"), ValueIdentifier("y")>>, Undefined,
                         FunctionApplication(
                             FunctionApplication(ValueIdentifier("c"), ValueIdentifier("y")),
                             Constant(0))>> >>, ValueIdentifier("c"))>>, 7),
          \* val r = c 1 2
          Val("r", FunctionApplication(FunctionApplication(ValueIdentifier("c"), Constant(1)),
                                       Constant(2)), 8) },
     types |->
        { \* type t = int
          TypeDeclaration(<<TypeBinding("t", CustomType("int"))>>, 2),
          \* type t = int and u = t
          TypeDeclaration(<<TypeBinding("t", CustomType("int")),
                            TypeBinding("u", CustomType("t"))>>, 3),
          DatatypeReplication("u", "t", 4),
          \* open S
          OpenDeclaration(<<"S">>, 5),
          \* fun f x = 1
          FunctionDeclaration(
              <<FunctionValueBinding(<< <<<<ValueIdentifier("x")>>, Undefined, Constant(1)>> >>,
                                     ValueIdentifier("f"))>>, 6),
          DatatypeTA(7),
          \* val r = f 0
          Val("r", FunctionApplication(ValueIdentifier("f"), Constant(0)), 8) }]

Suites == DOMAIN Catalogue

\* the chunks of at most n declarations of a family
Chunks(suite, n) == UNION {[1..k -> Catalogue[suite]] : k \in 1..n}

\* the id the parser gives the top-level SequentialDeclaration
TopId == 1

(* ------------------------- createBasicStdlib --------------------------- *)
(* The prelude that test_examples.ts interprets before every test, as the  *)
(* parser hands it to simplify: a fun has its clauses, an infix            *)
(* application is the application of the operator to a pair, and the       *)
(* declarations are numbered in the order of the source, the top-level     *)
(* sequence being number 1.  The declaration sequence of a let, local or   *)
(* abstype takes a number of its own, one per declaration and one more at  *)
(* its end (part_000: infix 2, val 3 [sequence 4 [infixr 5]], val 7).      *)
(* o and @ are nonfix where their fun is read.                             *)

Prelude ==
    LET V(name) == ValueIdentifier(name)
        App(func, argument) == FunctionApplication(func, argument)
        Op(op, a, b) == FunctionApplication(ValueIdentifier(op), Tuple(<<a, b>>))
        Clause(patterns, body) == <<patterns, Undefined, body>>
        Exception(name, id) == ExceptionDeclaration(<<DirectExceptionBinding(name, FALSE)>>, id)
        Fun(name, clauses, id) ==
            FunctionDeclaration(<<FunctionValueBinding(clauses, ValueIdentifier(name))>>, id)
        Compare(type) ==
            << Clause(<<Tuple(<<V("x"), TypedExpression(V("y"), CustomType(type))>>)>>,
                      Conditional(Op("<", V("x"), V("y")), V("LESS"),
                          Conditional(Op(">", V("x"), V("y")), V("GREATER"), V("EQUAL")))) >>
        Cons == Op("::", V("x"), V("xr"))
        nil == V("nil")
    IN  << Exception("Domain", 2),
           Exception("Overflow", 3),
           Exception("Empty", 4),
           Exception("Subscript", 5),
           Exception("Size", 6),
           Exception("Chr", 7),
           \* fun o (f,g) x = f (g x)
           Fun("o", << Clause(<<Tuple(<<V("f"), V("g")>>), V("x")>>,
                              App(V("f"), App(V("g"), V("x")))) >>, 8),
           InfixDeclaration(<<"o">>, 3, 9),
           DatatypeDeclaration(<<DatatypeBinding("order",
               << <<"LESS", FALSE>>, <<"EQUAL", FALSE>>, <<"GREATER", FALSE>> >>)>>, 10),
           \* fun Int.compare (x, y: int) = if x<y then LESS else if x>y then GREATER else EQUAL
           Fun("Int.compare", Compare("int"), 11),
           Fun("Real.compare", Compare("real"), 12),
           Exception("Option.Option", 13),
           DatatypeDeclaration(<<DatatypeBinding("option",
               << <<"NONE", FALSE>>, <<"SOME", TRUE>> >>)>>, 14),
           \* fun valOf (SOME x) = x | valOf NONE = raise Option.Option
           Fun("valOf", << Clause(<<App(V("SOME"), V("x"))>>, V("x")),
                          Clause(<<V("NONE")>>, Raise(V("Option.Option"))) >>, 15),
           \* fun isSome NONE = false | isSome (SOME _) = true
           Fun("isSome", << Clause(<<V("NONE")>>, V("false")),
                           Clause(<<App(V("SOME"), Wildcard)>>, V("true")) >>, 16),
           Val("Int.minInt", App(V("SOME"), Constant(-1073741824)), 17),
           Val("Int.maxInt", App(V("SOME"), Constant(1073741823)), 18),
           \* fun hd nil = raise Empty | hd (x::xr) = x
           Fun("hd", << Clause(<<nil>>, Raise(V("Empty"))), Clause(<<Cons>>, V("x")) >>, 19),
           Fun("tl", << Clause(<<nil>>, Raise(V("Empty"))), Clause(<<Cons>>, V("xr")) >>, 20),
           Fun("null", << Clause(<<nil>>, V("true")), Clause(<<Cons>>, V("false")) >>, 21),
           \* fun map f nil = nil | map f (x::xr) = (f x) :: (map f xr)
           Fun("map", << Clause(<<V("f"), nil>>, nil),
                        Clause(<<V("f"), Cons>>,
                               Op("::", App(V("f"), V("x")),
                                        App(App(V("map"), V("f")), V("xr")))) >>, 22),
           \* fun @ (nil,ys) = ys | @((x::xr),ys) = x:: @(xr,ys)
           Fun("@", << Clause(<<Tuple(<<nil, V("ys")>>)>>, V("ys")),
                      Clause(<<Tuple(<<Cons, V("ys")>>)>>,
                             Op("::", V("x"), App(V("@"), Tuple(<<V("xr"), V("ys")>>)))) >>, 23),
           InfixRDeclaration(<<"@">>, 5, 24),
           \* fun length nil = 0 | length (x::xr) = 1 + length xr
           Fun("length", << Clause(<<nil>>, Constant(0)),
                           Clause(<<Cons>>, Op("+", Constant(1), App(V("length"), V("xr")))) >>,
               25),
           \* fun rev nil = nil | rev (x::xr) = rev xr @ [x]
           Fun("rev", << Clause(<<nil>>, nil),
                        Clause(<<Cons>>, Op("@", App(V("rev"), V("xr")), List(<<V("x")>>))) >>,
               26),
           \* fun List.concat nil = nil | List.concat (x::xr) = x @ List.concat xr
           Fun("List.concat",
               << Clause(<<nil>>, nil),
                  Clause(<<Cons>>, Op("@", V("x"), App(V("List.concat"), V("xr")))) >>, 27),
           \* fun foldr f e [] = e | foldr f e (x::xr) = f(x, foldr f e xr)
           Fun("foldr",
               << Clause(<<V("f"), V("e"), List(<<>>)>>, V("e")),
                  Clause(<<V("f"), V("e"), Cons>>,
                         App(V("f"), Tuple(<<V("x"),
                             App(App(App(V("foldr"), V("f")), V("e")), V("xr"))>>))) >>, 28),
           \* fun foldl f e [] = e | foldl f e (x::xr) = foldl f (f(x, e)) xr
           Fun("foldl",
               << Clause(<<V("f"), V("e"), List(<<>>)>>, V("e")),
                  Clause(<<V("f"), V("e"), Cons>>,
                         App(App(App(V("foldl"), V("f")),
                                 App(V("f"), Tuple(<<V("x"), V("e")>>))), V("xr"))) >>, 29),
           \* fun List.tabulate (n, f) =
           \*   let fun h i = if i<n then f i :: h (i+1) else []
           \*   in if n<0 then raise Size else h 0 end
           Fun("List.tabulate",
               << Clause(<<Tuple(<<V("n"), V("f")>>)>>,
                      LocalDeclarationExpression(
                          SequentialDeclaration(
                              << Fun("h", << Clause(<<V("i")>>,
                                     Conditional(Op("<", V("i"), V("n")),
                                         Op("::", App(V("f"), V("i")),
                                            App(V("h"), Op("+", V("i"), Constant(1)))),
                                         List(<<>>))) >>, 32) >>, 31),
                          Conditional(Op("<", V("n"), Constant(0)), Raise(V("Size")),
                                      App(V("h"), Constant(0))))) >>, 30),
           \* fun List.exists p [] = false
           \*   | List.exists p (x::xr) = p x orelse List.exists p xr
           Fun("List.exists",
               << Clause(<<V("p"), List(<<>>)>>, V("false")),
                  Clause(<<V("p"), Cons>>,
                         Disjunction(App(V("p"), V("x")),
                                     App(App(V("List.exists"), V("p")), V("xr")))) >>, 34),
           \* fun List.all p [] = true
           \*   | List.all p (x::xr) = p x andalso List.all p xr
           Fun("List.all",
               << Clause(<<V("p"), List(<<>>)>>, V("true")),
                  Clause(<<V("p"), Cons>>,
                         Conjunction(App(V("p"), V("x")),
                                     App(App(V("List.all"), V("p")), V("xr")))) >>, 35),
           \* fun List.filter p [] = []
           \*   | List.filter p (x::xr) =
           \*       if p x then x :: List.filter p xr else List.filter p xr
           Fun("List.filter",
               << Clause(<<V("p"), List(<<>>)>>, List(<<>>)),
                  Clause(<<V("p"), Cons>>,
                         Conditional(App(V("p"), V("x")),
                             Op("::", V("x"), App(App(V("List.filter"), V("p")), V("xr"))),
                             App(App(V("List.filter"), V("p")), V("xr")))) >>, 36),
           \* fun List.collate (compare : 'a * 'a -> order) p = case p of
           \*     (nil, _::_) => LESS | (nil, nil) => EQUAL | (_::_, nil) => GREATER
           \*   | (x::xr, y::yr) => case compare(x,y) of
           \*         EQUAL => List.collate compare (xr,yr) | s => s
           Fun("List.collate",
               << Clause(<<TypedExpression(V("compare"),
                               FunctionType(TupleType(<<TypeVariable("'a"), TypeVariable("'a")>>),
                                            CustomType("order"))),
                           V("p")>>,
                      CaseAnalysis(V("p"),
                          << <<Tuple(<<nil, Op("::", Wildcard, Wildcard)>>), V("LESS")>>,
                             <<Tuple(<<nil, nil>>), V("EQUAL")>>,
                             <<Tuple(<<Op("::", Wildcard, Wildcard), nil>>), V("GREATER")>>,
                             <<Tuple(<<Cons, Op("::", V("y"), V("yr"))>>),
                               CaseAnalysis(App(V("compare"), Tuple(<<V("x"), V("y")>>)),
                                   << <<V("EQUAL"),
                                        App(App(V("List.collate"), V("compare")),
                                            Tuple(<<V("xr"), V("yr")>>))>>,
                                      <<V("s"), V("s")>> >>)>> >>)) >>, 37) >>

\* interpret(prelude, getInitialState(), true): the prelude is simplified and
\* evaluated in the initial state
createBasicStdlib_interpret ==
    evaluate([heap |-> <<InitialState>>] @@ NoEvents,
             simplify(SequentialDeclaration(Prelude, TopId)), 1, MaxDepth)

\* state = state.getNestedState(): the next id is the default of the new frame
createBasicStdlib_nested(r) == getNestedState(r.w, r.st, r.w.heap[r.st].id + 1)

\* the four values set from the host
createBasicStdlib_values ==
    << <<"Math.sqrt", PredefinedFunction("Math.sqrt")>>,
       <<"ord", PredefinedFunction("ord")>>,
       <<"chr", PredefinedFunction("chr")>>,
       <<"Math.pi", Real("3.14159265359")>> >>

createBasicStdlib_set(n) ==
    [heap |-> SetAll(n.w, n.st, createBasicStdlib_values, 1).heap, state |-> n.st,
     intros |-> n.w.intros]

createBasicStdlib == createBasicStdlib_set(createBasicStdlib_nested(createBasicStdlib_interpret))

(* ---------------------------- the session ------------------------------ *)

VARIABLES
    heap,     \* the frames allocated so far
    state,    \* the state the caller holds
    known,    \* the states handed to the caller so far, each with the lookups
              \* it answered when it was handed over
    intros,   \* the constructors introduced on the way to `state`
    last,     \* the last call: its input, outcome and events
    used,     \* declarations submitted so far
    suite,    \* the family the session draws its declarations from
    tmp,      \* cli.ts: the pending input of the read-eval-print loop
    printOpts \* cli.ts: the print options, of which stopId changes

vars == <<heap, state, known, intros, last, used, suite, tmp, printOpts>>

\* no read-eval-print loop is running
NoRepl == tmp = <<>> /\ printOpts = [stopId |-> 1]

NoCall == [outcome |-> "none"]

\* run_test: state = createBasicStdlib()
Init ==
    /\ heap = createBasicStdlib.heap
    /\ state = createBasicStdlib.state
    /\ known = <<[state |-> createBasicStdlib.state,
                  obs |-> Observe(createBasicStdlib.heap, createBasicStdlib.state)]>>
    /\ intros = createBasicStdlib.intros
    /\ last = NoCall
    /\ used = 0
    /\ suite \in Suites
    /\ NoRepl

\* the chunk as the parser hands it to interpret, simplified
interpret_simplify(chunk) == simplify(SequentialDeclaration(chunk, TopId))

\* tree.evaluate(state), unless simplify has thrown
Run_evaluate(tree) ==
    IF tree = InternalInterpreterError
    THEN DError([heap |-> heap] @@ NoEvents, "InternalInterpreterError")
    ELSE evaluate([heap |-> heap] @@ NoEvents, tree, state, MaxDepth)

\* interpret(chunk, state): the chunk is simplified, then evaluated
Run(chunk) == Run_evaluate(interpret_simplify(chunk))

\* the declarations that were evaluated
Evaluated(chunk) ==
    IF interpret_simplify(chunk) = InternalInterpreterError THEN chunk
    ELSE interpret_simplify(chunk).declarations

Call(chunk, r, outcome) ==
    [outcome |-> outcome, source |-> chunk, chunk |-> Evaluated(chunk), base |-> state,
     baseObs |-> Observe(heap, state),
     state |-> r.st, val |-> r.val,
     obs |-> IF r.st = NoState THEN Undefined ELSE Observe(r.w.heap, r.st),
     events |-> [rhs |-> r.w.rhs, apps |-> r.w.apps, intros |-> r.w.intros,
                 abs |-> r.w.abs, steps |-> r.w.steps]]

\* the chunk evaluates; the caller continues with the returned state
Returned(chunk, r) ==
    /\ r.err = "" /\ ~r.threw
    /\ heap' = r.w.heap
    /\ state' = r.st
    /\ known' = Append(known, [state |-> r.st, obs |-> Observe(r.w.heap, r.st)])
    /\ intros' = intros \o r.w.intros
    /\ last' = Call(chunk, r, "ok")
    /\ used' = used + Len(chunk)
    /\ UNCHANGED <<suite, tmp, printOpts>>

InterpretOk ==
    \E chunk \in Chunks(suite, MaxDecls - used) : Returned(chunk, Run(chunk))

\* the chunk raises an SML exception; the caller either continues with the
\* state handed back (test_examples.ts, run_test) or keeps its own (cli.ts)
Threw(chunk, r, adopt) ==
    /\ r.err = "" /\ r.threw
    /\ heap' = r.w.heap
    /\ state' = IF adopt THEN r.st ELSE state
    /\ known' = Append(known, [state |-> r.st, obs |-> Observe(r.w.heap, r.st)])
    /\ intros' = IF adopt THEN intros \o r.w.intros ELSE intros
    /\ last' = Call(chunk, r, "threw")
    /\ used' = used + Len(chunk)
    /\ UNCHANGED <<suite, tmp, printOpts>>

InterpretThrew ==
    \E chunk \in Chunks(suite, MaxDecls - used) :
        \E adopt \in BOOLEAN : Threw(chunk, Run(chunk), adopt)

\* evaluation aborts with a host error; no state is handed back
Aborted(chunk, r) ==
    /\ r.err # ""
    /\ heap' = r.w.heap
    /\ last' = Call(chunk, r, r.err)
    /\ used' = used + Len(chunk)
    /\ UNCHANGED <<state, known, intros, suite, tmp, printOpts>>

InterpretError ==
    \E chunk \in Chunks(suite, MaxDecls - used) : Aborted(chunk, Run(chunk))

Next == InterpretOk \/ InterpretThrew \/ InterpretError

Spec == Init /\ [][Next]_vars

(* ------------------------- syntactic helpers --------------------------- *)

RECURSIVE Declares(_)
RECURSIVE DeclaresSeq(_)
\* the value identifiers a declaration declares for the declarations after it
Declares(decl) ==
    CASE decl.d = "ValueDeclaration" ->
            {decl.valueBinding[i].pattern.name :
                i \in {j \in 1..Len(decl.valueBinding) :
                          decl.valueBinding[j].pattern.e = "ValueIdentifier"}}
      [] decl.d = "DatatypeDeclaration" ->
            {ConstructorNames(decl.datatypeBinding)[i] :
                i \in 1..Len(ConstructorNames(decl.datatypeBinding))}
      [] decl.d = "ExceptionDeclaration" ->
            {decl.bindings[i].name : i \in 1..Len(decl.bindings)}
      [] decl.d = "LocalDeclaration" -> Declares(decl.body)
      [] decl.d = "AbstypeDeclaration" -> Declares(decl.declaration)
      [] decl.d = "SequentialDeclaration" -> DeclaresSeq(decl.declarations)
      [] OTHER -> {}

DeclaresSeq(decls) ==
    IF decls = <<>> THEN {} ELSE Declares(Head(decls)) \cup DeclaresSeq(Tail(decls))

Bound(v) == v.k # "undefined"

\* the completed iterations of the top-level SequentialDeclaration of the last call
TopSteps == IF last.outcome = "none" THEN <<>>
            ELSE SelectSeq(last.events.steps, LAMBDA ev : ev.seq = TopId)

RECURSIVE Chain(_, _)
\* the frames a lookup on a state walks through
Chain(h, s) == IF s = NoState THEN {} ELSE {s} \cup Chain(h, h[s].parent)

(* ------------------------------- claims -------------------------------- *)

C2_NoEffectOnException ==
    last.outcome = "threw" => last.obs = last.baseObs

\* C3: after a successful chunk every identifier and type whose lookup
\* succeeded before still has a successful lookup, and the value of an
\* identifier is the old one unless the chunk declares that identifier for the
\* declarations after it (the hidden part of a local and the constructors of an
\* abstype are not declared for them)
C3_Monotonic ==
    last.outcome = "ok" =>
        /\ \A n \in Names :
              Bound(last.baseObs.dynamicValue[n]) =>
                  /\ Bound(last.obs.dynamicValue[n])
                  /\ n \notin DeclaresSeq(last.chunk) =>
                        last.obs.dynamicValue[n] = last.baseObs.dynamicValue[n]
        /\ \A n \in TypeNames :
              Bound(last.baseObs.dynamicType[n]) => Bound(last.obs.dynamicType[n])

\* the right-hand sides evaluated directly by top-level declaration i of the
\* last call (its frame is the one iteration i created)
TopRhs(i) ==
    LET done == {ev.nstate : ev \in {TopSteps[k] : k \in 1..Len(TopSteps)}}
        rhs  == last.events.rhs
        \* the frame of iteration i: logged when it completed, otherwise the
        \* frame of the right-hand side that ended the call
        mine(ev) == IF i <= Len(TopSteps) THEN ev.state = TopSteps[i].nstate
                    ELSE i = Len(TopSteps) + 1 /\ ev.state \notin done
                         /\ heap[ev.state].parent = (IF i = 1 THEN last.base
                                                     ELSE TopSteps[i - 1].state)
    IN  {rhs[k] : k \in {j \in 1..Len(rhs) : mine(rhs[j])}}

\* the lookups answered by the state in front of top-level declaration i
TopBefore(i) == IF i = 1 THEN last.baseObs ELSE TopSteps[i - 1].after

\* C4: declarations take effect in source order: the right-hand side of a
\* declaration is evaluated in a state that answers lookups as the state left
\* by the declaration before it (no binding of its own or of a later
\* declaration), that binds every name declared by an earlier declaration of
\* the chunk, and a name bound twice yields the later value
C4_SourceOrder ==
    last.outcome # "none" =>
        \A i \in 1..Len(last.chunk) :
            /\ \A ev \in TopRhs(i) :
                  /\ ev.visible = TopBefore(i).dynamicValue
                  /\ \A j \in 1..(i - 1) : \A n \in Declares(last.chunk[j]) :
                        Bound(ev.visible[n])
            /\ (/\ i <= Len(TopSteps)
                /\ ~TopSteps[i].threw
                /\ last.chunk[i].d = "ValueDeclaration"
                /\ Len(last.chunk[i].valueBinding) = 1
                /\ last.chunk[i].valueBinding[1].expression.e = "Constant")
               => TopSteps[i].after.dynamicValue[last.chunk[i].valueBinding[1].pattern.name]
                      = Integer(last.chunk[i].valueBinding[1].expression.n)

\* C5: after a successful local D1 in D2 end in state S the result binds every
\* name D2 declares, no name only D1 declares, and its parent chain leads to S
C5_LocalResult ==
    \A i \in 1..Len(TopSteps) :
        (last.chunk[i].d = "LocalDeclaration" /\ ~TopSteps[i].threw) =>
            /\ \A n \in Declares(last.chunk[i].body) :
                  Bound(TopSteps[i].after.dynamicValue[n])
            /\ \A n \in Declares(last.chunk[i].declaration) \ Declares(last.chunk[i].body) :
                  TopSteps[i].after.dynamicValue[n] = TopSteps[i].before.dynamicValue[n]
            /\ TopSteps[i].nstate \in Chain(heap, TopSteps[i].state)

\* local val a = 1 in val f = fn _ => a end
LocalClosure ==
    CHOOSE d \in Catalogue.local :
        d.d = "LocalDeclaration" /\ "f" \in Declares(d)

\* C6: a function created in the body of a local declaration resolves a name
\* of the local part to the local part's value when it is applied after `end`
C6_ClosureKeepsLocal ==
    (/\ suite = "local"
     /\ last.outcome # "none"
     /\ last.chunk[Len(last.chunk)].d = "ValueDeclaration"
     /\ "r" \in Declares(last.chunk[Len(last.chunk)])
     /\ Bound(Observe(heap, last.base).dynamicValue["f"])
           \/ \E i \in 1..(Len(last.chunk) - 1) : last.chunk[i] = LocalClosure)
    => /\ last.outcome = "ok"
       /\ last.obs.dynamicValue["r"] = Integer(1)

\* C7: a datatype or exception declaration (direct or alias) that would bind
\* the protected identifier true fails with EvaluationError, and true keeps
\* its initial binding in every state the caller holds
C7_RebindProtection ==
    /\ (last.outcome # "none" /\ "true" \in Declares(last.chunk[1]))
          => last.outcome = "EvaluationError"
    /\ \A i \in 1..Len(known) :
          getDynamicValue(heap, known[i].state, "true") = ValueConstructor("true", 0, 0)

\* C8: after abstype T = C1 | ... | Cn with D end none of C1..Cn is bound by
\* the abstype in the resulting state, while all are bound when D is evaluated
C8_AbstypeHidesConstructors ==
    \A i \in 1..Len(TopSteps) :
        (last.chunk[i].d = "AbstypeDeclaration" /\ ~TopSteps[i].threw) =>
            LET cons == ConstructorNames(last.chunk[i].datatypeBinding)
            IN  /\ \A k \in 1..Len(cons) :
                      cons[k] \notin Declares(last.chunk[i]) =>
                          TopSteps[i].after.dynamicValue[cons[k]]
                              = TopSteps[i].before.dynamicValue[cons[k]]
                /\ \A ev \in {last.events.abs[k] : k \in 1..Len(last.events.abs)} :
                      \A k \in 1..Len(ev.constructors) :
                          /\ ev.during[ev.constructors[k]].k = "ValueConstructor"
                          /\ ev.during[ev.constructors[k]].constructorName = ev.constructors[k]

\* C9: constructors of the same name introduced by declarations evaluated one
\* after the other get different ids, so values built with them are unequal
C9_UniqueIds ==
    \A i \in 1..Len(intros) : \A j \in (i + 1)..Len(intros) :
        intros[i].name = intros[j].name =>
            /\ intros[i].id # intros[j].id
            /\ ~ConstructedValue_equals(
                    ConstructedValue(intros[i].name, Undefined, intros[i].id),
                    ConstructedValue(intros[j].name, Undefined, intros[j].id))

\* the val rec and fun groups of the programs, a fun group as the val rec
\* group it is simplified to: the names bound and their matches
RecGroups ==
    {d \in {simplify(m) : m \in Catalogue[suite]} :
        d.d = "ValueDeclaration" /\ d.valueBinding[1].isRecursive}

RECURSIVE FirstMismatch(_, _)
FirstMismatch(valueBinding, k) ==
    IF k > Len(valueBinding) THEN 0
    ELSE IF valueBinding[k].expression.e # "Constant" THEN 0
    ELSE IF valueBinding[k].pattern.e = "Constant"
         THEN IF valueBinding[k].pattern.n # valueBinding[k].expression.n THEN k ELSE 0
    ELSE FirstMismatch(valueBinding, k + 1)

Operands == {MININT, MININT + 1, -7, -1, 0, 1, 2, 7, MAXINT - 1, MAXINT}

Factors == {-1, 0, 1, 2}

Payloads == {Undefined, Integer(1), Integer(2), ConstructedValue("A", Undefined, 0)}

ConstructedValues ==
    {ConstructedValue(n, p, i) : n \in {"A", "B"}, p \in Payloads, i \in {0, 1}}

ExceptionValues ==
    {ExceptionValue(n, p, i) : n \in {"E", "Div"}, p \in Payloads, i \in {0, 1}}

\* {}, (1, 2), (1, 1), {a = 1}, {a = 1, b = A}
RecordValues ==
    {RecordValue(EmptyMap),
     RecordValue(("1" :> Integer(1)) @@ ("2" :> Integer(2))),
     RecordValue(("1" :> Integer(1)) @@ ("2" :> Integer(1))),
     RecordValue("a" :> Integer(1)),
     RecordValue(("a" :> Integer(1)) @@ ("b" :> ConstructedValue("A", Undefined, 0)))}

\* no session runs while single operations are applied
ValuesInit ==
    /\ heap = <<InitialState>>
    /\ state = 1
    /\ known = <<>>
    /\ intros = <<>>
    /\ last = NoCall
    /\ used = 0
    /\ suite = "values"
    /\ NoRepl

Applied(op, a, b, result) ==
    [outcome |-> "value", op |-> op, a |-> a, b |-> b, result |-> result]

session == <<heap, state, known, intros, used, suite, tmp, printOpts>>

Add ==
    \E a, b \in Operands :
        /\ last = NoCall
        /\ last' = Applied("+", a, b, Integer_add(Integer(a), Integer(b)))
        /\ UNCHANGED session

Subtract ==
    \E a, b \in Operands :
        /\ last = NoCall
        /\ last' = Applied("-", a, b, Integer_subtract(Integer(a), Integer(b)))
        /\ UNCHANGED session

Multiply ==
    \E a \in Operands, b \in Factors :
        /\ last = NoCall
        /\ last' = Applied("*", a, b, Integer_multiply(Integer(a), Integer(b)))
        /\ UNCHANGED session

Divide ==
    \E a, b \in Operands :
        /\ last = NoCall
        /\ last' = Applied("div", a, b, Integer_divide(Integer(a), Integer(b)))
        /\ UNCHANGED session

\* ~a
Negate ==
    \E a \in Operands :
        /\ last = NoCall
        /\ last' = Applied("~", a, a, Integer_negate(Integer(a)))
        /\ UNCHANGED session

\* a div ~b and a mod ~b, where ~0 is the negative zero
DivideNegated ==
    \E a, b \in Operands :
        /\ last = NoCall
        /\ last' = Applied("div ~", a, b, Integer_divide(Integer(a), Integer_negate(Integer(b))))
        /\ UNCHANGED session

ModuloNegated ==
    \E a, b \in Operands :
        /\ last = NoCall
        /\ last' = Applied("mod ~", a, b, Integer_modulo(Integer(a), Integer_negate(Integer(b))))
        /\ UNCHANGED session

Modulo ==
    \E a, b \in Operands :
        /\ last = NoCall
        /\ last' = Applied("mod", a, b, Integer_modulo(Integer(a), Integer(b)))
        /\ UNCHANGED session

RecordEquals ==
    \E a, b \in RecordValues :
        /\ last = NoCall
        /\ last' = Applied("RecordValue.equals", a, b, RecordValue_equals(a, b))
        /\ UNCHANGED session

ConstructedEquals ==
    \E a, b \in ConstructedValues :
        /\ last = NoCall
        /\ last' = Applied("ConstructedValue.equals", a, b, ConstructedValue_equals(a, b))
        /\ UNCHANGED session

ExceptionEquals ==
    \E a, b \in ExceptionValues :
        /\ last = NoCall
        /\ last' = Applied("ExceptionValue.equals", a, b, ExceptionValue_equals(a, b))
        /\ UNCHANGED session

ValuesNext ==
    \/ Add \/ Subtract \/ Multiply \/ Divide \/ Modulo
    \/ Negate \/ DivideNegated \/ ModuloNegated
    \/ RecordEquals \/ ConstructedEquals \/ ExceptionEquals

ValuesSpec == ValuesInit /\ [][ValuesNext]_vars

\* the mathematical result of an additive or multiplicative operation
Exact(op, a, b) == IF op = "+" THEN a + b ELSE IF op = "-" THEN a - b ELSE a * b

Raised(result, name) == result.k = "ExceptionValue" /\ result.constructorName = name

\* C12: a + b, a - b and a * b raise Overflow when the mathematical result
\* lies outside [MININT, MAXINT] and return it exactly otherwise
C12_OverflowRaised ==
    (last.outcome = "value" /\ last.op \in {"+", "-", "*"}) =>
        IF Exact(last.op, last.a, last.b) > MAXINT \/ Exact(last.op, last.a, last.b) < MININT
        THEN Raised(last.result, "Overflow")
        ELSE /\ last.result.k = "Integer"
             /\ Integer_equals(last.result, Integer(Exact(last.op, last.a, last.b)))

\* C13: a div 0 and a mod 0 raise Div and never produce an Integer
C13_DivByZero ==
    (last.outcome = "value" /\ last.op \in {"div", "mod"} /\ last.b = 0) =>
        /\ Raised(last.result, "Div")
        /\ last.result.k # "Integer"

\* structural equality of two values of the kinds used as payloads and entries
SameValue(v, w) == v.k = w.k /\ v = w

\* C14: r1.equals(r2) is true exactly when both records have the same labels
\* and equal values under every label
C14_RecordEquality ==
    (last.outcome = "value" /\ last.op = "RecordValue.equals") =>
        /\ last.result.err = ""
        /\ last.result.result =
              (/\ DOMAIN last.a.entries = DOMAIN last.b.entries
               /\ \A l \in DOMAIN last.a.entries :
                     SameValue(last.a.entries[l], last.b.entries[l]))

\* C15: v.equals(w) on constructed values and on exception values is true
\* exactly when name and id coincide and either both have no payload or both
\* have equal payloads
C15_ConstructedEquality ==
    (last.outcome = "value"
     /\ last.op \in {"ConstructedValue.equals", "ExceptionValue.equals"}) =>
        last.result =
            (/\ last.a.constructorName = last.b.constructorName
             /\ last.a.id = last.b.id
             /\ SameValue(last.a.argument, last.b.argument))

(* ------------------------------- lexer --------------------------------- *)

\* A character is a string of length one, an input a sequence of characters.
\* The grave accent (code 96) cannot be written in a string here, so it is named
GraveAccent == "grave"

\* The printable ASCII characters in code order, from 32 (space) on
Printable ==
    <<" ", "!", "\"", "#", "$", "%", "&", "'", "(", ")", "*", "+", ",", "-", ".", "/",
      "0", "1", "2", "3", "4", "5", "6", "7", "8", "9", ":", ";", "<", "=", ">", "?",
      "@", "A", "B", "C", "D", "E", "F", "G", "H", "I", "J", "K", "L", "M", "N", "O",
      "P", "Q", "R", "S", "T", "U", "V", "W", "X", "Y", "Z", "[", "\\", "]", "^", "_",
      GraveAccent, "a", "b", "c", "d", "e", "f", "g", "h", "i", "j", "k", "l", "m", "n", "o",
      "p", "q", "r", "s", "t", "u", "v", "w", "x", "y", "z", "{", "|", "}", "~">>

\* c.charCodeAt(0)
charCodeAt(c) ==
    CASE c = "\t" -> 9 [] c = "\n" -> 10 [] c = "\f" -> 12 [] c = "\r" -> 13
      [] OTHER -> 31 + CHOOSE i \in 1..Len(Printable) : Printable[i] = c

\* what getChar answers beyond the end of the input
EndOfTransmission == "EOT"

InRange(c, lo, hi) ==
    /\ c # EndOfTransmission
    /\ charCodeAt(c) >= charCodeAt(lo)
    /\ charCodeAt(c) <= charCodeAt(hi)

reservedWords ==
    {<<"a", "b", "s", "t", "y", "p", "e">>, <<"a", "n", "d">>,
     <<"a", "n", "d", "a", "l", "s", "o">>, <<"a", "s">>, <<"c", "a", "s", "e">>,
     <<"d", "a", "t", "a", "t", "y", "p", "e">>, <<"d", "o">>, <<"e", "l", "s", "e">>,
     <<"e", "n", "d">>, <<"e", "x", "c", "e", "p", "t", "i", "o", "n">>, <<"f", "n">>,
     <<"f", "u", "n">>, <<"h", "a", "n", "d", "l", "e">>, <<"i", "f">>, <<"i", "n">>,
     <<"i", "n", "f", "i", "x">>, <<"i", "n", "f", "i", "x", "r">>, <<"l", "e", "t">>,
     <<"l", "o", "c", "a", "l">>, <<"n", "o", "n", "f", "i", "x">>, <<"o", "f">>, <<"o", "p">>,
     <<"o", "p", "e", "n">>, <<"o", "r", "e", "l", "s", "e">>, <<"r", "a", "i", "s", "e">>,
     <<"r", "e", "c">>, <<"t", "h", "e", "n">>, <<"t", "y", "p", "e">>, <<"v", "a", "l">>,
     <<"w", "i", "t", "h">>, <<"w", "i", "t", "h", "t", "y", "p", "e">>,
     <<"w", "h", "i", "l", "e">>, <<"(">>, <<")">>, <<"[">>, <<"]">>, <<"{">>, <<"}">>,
     <<",">>, <<":">>, <<";">>, <<".", ".", ".">>, <<"_">>, <<"|">>, <<"=">>, <<"=", ">">>,
     <<"-", ">">>, <<"#">>, <<"e", "q", "t", "y", "p", "e">>,
     <<"f", "u", "n", "c", "t", "o", "r">>, <<"s", "i", "g", "n", "a", "t", "u", "r", "e">>,
     <<"s", "t", "r", "u", "c", "t">>, <<"i", "n", "c", "l", "u", "d", "e">>,
     <<"s", "h", "a", "r", "i", "n", "g">>, <<"s", "t", "r", "u", "c", "t", "u", "r", "e">>,
     <<"w", "h", "e", "r", "e">>, <<"s", "i", "g">>, <<":", ">">>}

Apostrophe == Printable[8]

symbolicCharacters ==
    {"!", "%", "&", "$", "#", "+", "-", "/", ":", "<", "=", ">", "?", "@", "\\", "~",
     GraveAccent, "^", "|", "*"}

isAlphanumeric(c) ==
    InRange(c, "a", "z") \/ InRange(c, "A", "Z") \/ InRange(c, "0", "9") \/ c = Apostrophe \/ c = "_"

isSymbolic(c) == c \in symbolicCharacters

isWhitespace(c) == c = " " \/ c = "\t" \/ c = "\n" \/ c = "\f"

isNumber(c, hexadecimal) ==
    InRange(c, "0", "9") \/ (hexadecimal /\ (InRange(c, "a", "f") \/ InRange(c, "A", "F")))

\* a Lexer object; position and tokenStart count from 0; err names the error
\* thrown ("" while none is)
Lexer(input, options) ==
    [input |-> input, options |-> options, position |-> 0, tokenStart |-> 0, err |-> ""]

Throw(l, err) == [l EXCEPT !.err = err]

getChar(l, offset) ==
    IF l.position + offset >= Len(l.input) THEN EndOfTransmission
    ELSE l.input[l.position + offset + 1]

\* input.substr(position, 2) === s, for a string s of two characters
substr2(l, s) ==
    /\ l.position + 1 < Len(l.input)
    /\ l.input[l.position + 1] = s[1]
    /\ l.input[l.position + 2] = s[2]

\* input.substring(from, to)
substring(l, from, to) == SubSeq(l.input, from + 1, to)

\* a loop that takes the end of the input for white space, once
RECURSIVE skipWhitespace_past(_)
skipWhitespace_past(l) ==
    IF isWhitespace(getChar(l, 0)) THEN skipWhitespace_past([l EXCEPT !.position = @ + 1])
    ELSE IF l.position = Len(l.input) /\ l.position > 0 THEN [l EXCEPT !.position = @ + 1]
    ELSE l

RECURSIVE skipWhitespace(_)
skipWhitespace(l) ==
    IF isWhitespace(getChar(l, 0)) THEN skipWhitespace([l EXCEPT !.position = @ + 1])
    ELSE l

RECURSIVE skipComment_flat(_, _)
skipComment_flat(l, openComments) ==
    IF openComments = 0 THEN l
    ELSE IF l.position > Len(l.input) - 2 THEN Throw(l, "IncompleteError")
    ELSE IF substr2(l, <<"*", ")">>)
         THEN skipComment_flat([l EXCEPT !.position = @ + 2], openComments - 1)
    ELSE skipComment_flat([l EXCEPT !.position = @ + 1], openComments)

\* the loop "while (openComments > 0)" of skipWhitespaceAndComments
RECURSIVE skipComment(_, _)
skipComment(l, openComments) ==
    IF openComments = 0 THEN l
    ELSE IF l.position > Len(l.input) - 2 THEN Throw(l, "IncompleteError")
    ELSE IF substr2(l, <<"(", "*">>)
         THEN skipComment([l EXCEPT !.position = @ + 2], openComments + 1)
    ELSE IF substr2(l, <<"*", ")">>)
         THEN skipComment([l EXCEPT !.position = @ + 2], openComments - 1)
    ELSE skipComment([l EXCEPT !.position = @ + 1], openComments)

\* the loop over the comments that follow each other directly
RECURSIVE skipComments(_)
skipComments(l) ==
    IF l.err = "" /\ substr2(l, <<"(", "*">>)
    THEN skipComments(skipComment([l EXCEPT !.position = @ + 2], 1))
    ELSE l

RECURSIVE skipWhitespaceAndComments(_)

\* the end of one round of the do-while loop, l being the lexer after it
skipWhitespaceAndComments_again(l, oldnumber) ==
    IF l.err # "" THEN l
    ELSE IF l.position # oldnumber THEN skipWhitespaceAndComments(l)
    ELSE [l EXCEPT !.tokenStart = l.position]

skipWhitespaceAndComments(l) ==
    skipWhitespaceAndComments_again(skipComments(skipWhitespace(l)), l.position)

\* ++this.position, offset characters at once
advance(l, offset) == [l EXCEPT !.position = @ + offset]

\* consumeChar: the lexer after it; the character consumed is getChar(l, 0)
consumeChar(l) ==
    IF l.position >= Len(l.input) THEN Throw(l, "IncompleteError")
    ELSE advance(l, 1)

\* A token: its class, its text, its value (the number
\* of a numeric constant as <<v>>, the character codes of a string or character
\* constant, the characters handed to parseFloat for a real constant) and, for a
\* long identifier, the texts of its qualifiers and of its final identifier
Token(type, text, value) ==
    [type |-> type, text |-> text, value |-> value,
     qualifiers |-> <<>>, id |-> <<>>]

NoToken == Token("none", <<>>, <<>>)

\* what a lexing method leaves: the lexer after it and the token it returns
Lexed(l, token) == [l |-> l, token |-> token]

Failed(l, err) == Lexed(Throw(l, err), NoToken)

RECURSIVE codes(_)
codes(s) == IF s = <<>> THEN <<>> ELSE <<charCodeAt(Head(s))>> \o codes(Tail(s))

\* the digit a character stands for in parseInt
digit(c) ==
    IF InRange(c, "0", "9") THEN charCodeAt(c) - charCodeAt("0")
    ELSE IF InRange(c, "a", "f") THEN charCodeAt(c) - charCodeAt("a") + 10
    ELSE charCodeAt(c) - charCodeAt("A") + 10

\* parseInt of a sequence of digits; every number over MAXINT + 1 is MAXINT + 2
\* here, which keeps it out of the range from MININT to MAXINT under either sign
RECURSIVE parseDigits(_, _, _)
parseDigits(s, radix, acc) ==
    IF s = <<>> THEN acc
    ELSE IF acc > (MAXINT + 1 - digit(Head(s))) \div radix THEN MAXINT + 2
    ELSE parseDigits(Tail(s), radix, acc * radix + digit(Head(s)))

\* parseInt(value, radix) of an optional "-" and digits
parseInt(value, radix) ==
    IF value # <<>> /\ Head(value) = "-" THEN 0 - parseDigits(Tail(value), radix, 0)
    ELSE parseDigits(value, radix, 0)

RECURSIVE readNumeric(_, _, _, _)
\* the lexer after readNumeric(hexadecimal, maxLength); the string it returns is
\* the input between the two positions, of the given length so far
readNumeric(l, hexadecimal, maxLength, length) ==
    IF isNumber(getChar(l, 0), hexadecimal) /\ length # maxLength
    THEN readNumeric(advance(l, 1), hexadecimal, maxLength, length + 1)
    ELSE l

makeNumberToken_text(l, token, value, v, word) ==
    IF v > MAXINT \/ v < MININT THEN Failed(l, "LexerError")
    ELSE IF word THEN Lexed(l, Token("WordConstantToken", token, <<v>>))
    ELSE IF isNumber(Head(token), FALSE) /\ Head(token) # "0"
         THEN Lexed(l, Token("NumericToken", token, <<v>>))
    ELSE Lexed(l, Token("IntegerConstantToken", token, <<v>>))

makeNumberToken(l, value, real, word, hexadecimal) ==
    IF real /\ word THEN Failed(l, "InternalInterpreterError")
    ELSE IF real
         THEN Lexed(l, Token("RealConstantToken", substring(l, l.tokenStart, l.position),
                             codes(value)))
    ELSE makeNumberToken_text(l, substring(l, l.tokenStart, l.position), value,
                              parseInt(value, IF hexadecimal THEN 16 ELSE 10), word)

\* the exponent: value holds the text read so far, the lexer is at "e" or "E"
lexNumber_exponent_digits(from, l, value, sign) ==
    makeNumberToken(l, value \o sign \o substring(l, from, l.position), TRUE, FALSE, FALSE)

lexNumber_exponent_strict(l, value, real) ==
    IF getChar(l, 0) = "e" \/ getChar(l, 0) = "E"
    THEN IF isNumber(getChar(l, 1), FALSE)
         THEN lexNumber_exponent_digits(l.position + 1,
                                        readNumeric(advance(l, 1), FALSE, -1, 0),
                                        value, <<"e">>)
         ELSE IF getChar(l, 1) = "~" /\ isNumber(getChar(l, 2), FALSE)
         THEN lexNumber_exponent_digits(l.position + 2,
                                        readNumeric(advance(l, 2), FALSE, -1, 0),
                                        value, <<"e", "-">>)
         ELSE Failed(l, "LexerError")
    ELSE makeNumberToken(l, value, real, FALSE, FALSE)

lexNumber_exponent(l, value, real) ==
    IF getChar(l, 0) = "e" \/ getChar(l, 0) = "E"
    THEN IF isNumber(getChar(l, 1), FALSE)
         THEN lexNumber_exponent_digits(l.position + 1,
                                        readNumeric(advance(l, 1), FALSE, -1, 0),
                                        value, <<"e">>)
         ELSE IF getChar(l, 1) = "~" /\ isNumber(getChar(l, 2), FALSE)
         THEN lexNumber_exponent_digits(l.position + 2,
                                        readNumeric(advance(l, 2), FALSE, -1, 0),
                                        value, <<"e", "-">>)
         ELSE makeNumberToken(l, value, real, FALSE, FALSE)
    ELSE makeNumberToken(l, value, real, FALSE, FALSE)

\* the fraction: the lexer was at "." followed by a digit, l is the lexer after
\* the digits
lexNumber_fraction_digits(from, l, value) ==
    lexNumber_exponent(l, value \o substring(l, from, l.position), TRUE)

lexNumber_fraction(l, value) ==
    IF getChar(l, 0) = "."
    THEN IF isNumber(getChar(l, 1), FALSE)
         THEN lexNumber_fraction_digits(l.position,
                                        readNumeric(advance(l, 1), FALSE, -1, 0), value)
         ELSE makeNumberToken(l, value, FALSE, FALSE, FALSE)
    ELSE lexNumber_exponent(l, value, FALSE)

\* value += this.readNumeric(hexadecimal), l being the lexer after the digits
lexNumber_read(from, l, value, word, hexadecimal) ==
    IF hexadecimal \/ word
    THEN makeNumberToken(l, value \o substring(l, from, l.position), FALSE, word, hexadecimal)
    ELSE lexNumber_fraction(l, value \o substring(l, from, l.position))

lexNumber_digits(l, value, word, hexadecimal) ==
    lexNumber_read(l.position, readNumeric(l, hexadecimal, -1, 0), value, word, hexadecimal)

lexNumber_prefix_signed(l, value, negative, word, hexadecimal) ==
    IF ~isNumber(getChar(l, IF word /\ hexadecimal THEN 2 ELSE 1), hexadecimal)
    THEN makeNumberToken(l, value \o <<"0">>, FALSE, FALSE, FALSE)
    ELSE lexNumber_digits(advance(l, IF word /\ hexadecimal THEN 2 ELSE 1), value,
                          word, hexadecimal)

\* after the "0" of a prefix: the lexer is at "w" or "x"
lexNumber_prefix(l, value, negative, word, hexadecimal) ==
    IF (negative /\ word)
       \/ ~isNumber(getChar(l, IF word /\ hexadecimal THEN 2 ELSE 1), hexadecimal)
    THEN makeNumberToken(l, value \o <<"0">>, FALSE, FALSE, FALSE)
    ELSE lexNumber_digits(advance(l, IF word /\ hexadecimal THEN 2 ELSE 1), value,
                          word, hexadecimal)

lexNumber_signed(l, value, negative) ==
    IF getChar(l, 0) = "0" /\ (getChar(l, 1) = "w" \/ getChar(l, 1) = "x")
    THEN lexNumber_prefix(advance(l, 1), value, negative, getChar(l, 1) = "w",
                          getChar(l, IF getChar(l, 1) = "w" THEN 2 ELSE 1) = "x")
    ELSE lexNumber_digits(l, value, FALSE, FALSE)

lexNumber(l) ==
    IF getChar(l, 0) = "~" THEN lexNumber_signed(advance(l, 1), <<"-">>, TRUE)
    ELSE lexNumber_signed(l, <<>>, FALSE)

\* one round of the loop of lexString: the lexer and the value after it
Round(l, value) == [l |-> l, value |-> value]

\* value += String.fromCharCode(v) for the code read by an escape of digits
lexString_code(from, l, value, length, radix) ==
    IF l.position - from # length THEN Round(Throw(l, "LexerError"), value)
    ELSE IF parseInt(substring(l, from, l.position), radix) >= 256
            /\ ~l.options.allowUnicodeInStrings
         THEN Round(Throw(l, "LexerError"), value)
    ELSE Round(l, Append(value, parseInt(substring(l, from, l.position), radix)))

\* case '^': l is the lexer after the "^"
lexString_control(l, value) ==
    IF l.position >= Len(l.input) THEN Round(Throw(l, "IncompleteError"), value)
    ELSE IF charCodeAt(getChar(l, 0)) < 64 \/ charCodeAt(getChar(l, 0)) > 95
         THEN Round(Throw(advance(l, 1), "LexerError"), value)
    ELSE Round(advance(l, 1), Append(value, charCodeAt(getChar(l, 0)) - 64))

\* switch (c): l is the lexer after the character c that follows the backslash
lexString_switch(l, c, value) ==
    CASE c = "a" -> Round(l, Append(value, 7))
      [] c = "b" -> Round(l, Append(value, 8))
      [] c = "t" -> Round(l, Append(value, 9))
      [] c = "n" -> Round(l, Append(value, 10))
      [] c = "v" -> Round(l, Append(value, 11))
      [] c = "f" -> Round(l, Append(value, 12))
      [] c = "r" -> Round(l, Append(value, 13))
      [] c = "\"" -> Round(l, Append(value, 34))
      [] c = "\\" -> Round(l, Append(value, 92))
      [] c = "^" -> lexString_control(l, value)
      [] c = "u" -> lexString_code(l.position, readNumeric(l, TRUE, 4, 0), value, 4, 16)
      [] OTHER ->
           IF ~isNumber(c, FALSE) THEN Round(Throw(l, "LexerError"), value)
           ELSE lexString_code(l.position - 1, readNumeric(advance(l, -1), FALSE, 3, 0),
                               value, 3, 10)

\* the whitespace escape: l is the lexer after skipWhitespace
lexString_whitespace(l, value) ==
    IF l.position >= Len(l.input) THEN Round(Throw(l, "IncompleteError"), value)
    ELSE IF getChar(l, 0) # "\\" THEN Round(Throw(advance(l, 1), "LexerError"), value)
    ELSE Round(advance(l, 1), value)

\* l is the lexer after the backslash
lexString_escape(l, value) ==
    IF isWhitespace(getChar(l, 0)) THEN lexString_whitespace(skipWhitespace(l), value)
    ELSE IF l.position >= Len(l.input) THEN Round(Throw(l, "IncompleteError"), value)
    ELSE lexString_switch(advance(l, 1), getChar(l, 0), value)

\* a character that is no backslash
lexString_character(l, value) ==
    IF l.position >= Len(l.input) THEN Round(Throw(l, "IncompleteError"), value)
    ELSE IF (charCodeAt(getChar(l, 0)) < 33 \/ charCodeAt(getChar(l, 0)) > 126)
            /\ charCodeAt(getChar(l, 0)) # 32 /\ charCodeAt(getChar(l, 0)) < 128
         THEN Round(Throw(advance(l, 1), "LexerError"), value)
    ELSE Round(advance(l, 1), Append(value, charCodeAt(getChar(l, 0))))

RECURSIVE lexString_loop(_, _)
\* while (this.getChar() !== '"'), then the closing quote and the token
lexString_loop(round, startnumber) ==
    IF round.l.err # "" THEN Lexed(round.l, NoToken)
    ELSE IF getChar(round.l, 0) = "\""
         THEN Lexed(advance(round.l, 1),
                    Token("StringConstantToken",
                          substring(round.l, startnumber, round.l.position + 1),
                          round.value))
    ELSE IF getChar(round.l, 0) = "\\"
         THEN lexString_loop(lexString_escape(advance(round.l, 1), round.value), startnumber)
    ELSE lexString_loop(lexString_character(round.l, round.value), startnumber)

lexString(l) ==
    IF l.position >= Len(l.input) THEN Failed(l, "IncompleteError")
    ELSE IF getChar(l, 0) # "\"" THEN Failed(advance(l, 1), "InternalInterpreterError")
    ELSE lexString_loop(Round(advance(l, 1), <<>>), l.position)

lexCharacter_checked(t) ==
    IF t.l.err # "" THEN t
    ELSE IF Len(t.token.value) # 1 THEN Failed(t.l, "LexerError")
    ELSE Lexed(t.l, Token("CharacterConstantToken", <<"#">> \o t.token.text, t.token.value))

lexCharacter(l) ==
    IF l.position >= Len(l.input) THEN Failed(l, "IncompleteError")
    ELSE IF getChar(l, 0) # "#" THEN Failed(advance(l, 1), "InternalInterpreterError")
    ELSE lexCharacter_checked(lexString(advance(l, 1)))

\* charChecker, named by whether it is isSymbolic or isAlphanumeric
charChecker(c, symbolic) == IF symbolic THEN isSymbolic(c) ELSE isAlphanumeric(c)

RECURSIVE lexIdentifierOrKeyword_consume(_, _)
\* do { token += this.consumeChar(); } while (charChecker(this.getChar()))
lexIdentifierOrKeyword_consume(l, symbolic) ==
    IF charChecker(getChar(l, 1), symbolic)
    THEN lexIdentifierOrKeyword_consume(advance(l, 1), symbolic)
    ELSE advance(l, 1)

\* the class of the token read, l being the lexer after it
lexIdentifierOrKeyword_token(l, token, firstChar) ==
    IF token = <<"*">> THEN Lexed(l, Token("StarToken", token, <<>>))
    ELSE IF token = <<"=">> THEN Lexed(l, Token("EqualsToken", token, <<>>))
    ELSE IF token \in reservedWords THEN Lexed(l, Token("KeywordToken", token, <<>>))
    ELSE IF firstChar = Apostrophe
         THEN IF Len(token) >= 2 /\ token[2] = Apostrophe
              THEN IF Len(token) = 2 THEN Failed(l, "LexerError")
                   ELSE Lexed(l, Token("EqualityTypeVariableToken", token, <<>>))
              ELSE IF Len(token) >= 2 THEN Lexed(l, Token("TypeVariableToken", token, <<>>))
                   ELSE Failed(l, "LexerError")
    ELSE IF isAlphanumeric(firstChar)
         THEN Lexed(l, Token("AlphanumericIdentifierToken", token, <<>>))
    ELSE Lexed(l, Token("IdentifierToken", token, <<>>))

lexIdentifierOrKeyword_consumed(from, l, firstChar) ==
    lexIdentifierOrKeyword_token(l, substring(l, from, l.position), firstChar)

\* a lexer for which an alphanumeric identifier may start with an underscore
lexIdentifierOrKeyword_underscore(l) ==
    IF isSymbolic(getChar(l, 0))
    THEN lexIdentifierOrKeyword_consumed(l.position, lexIdentifierOrKeyword_consume(l, TRUE),
                                         getChar(l, 0))
    ELSE IF isAlphanumeric(getChar(l, 0)) /\ ~isNumber(getChar(l, 0), FALSE)
    THEN lexIdentifierOrKeyword_consumed(l.position, lexIdentifierOrKeyword_consume(l, FALSE),
                                         getChar(l, 0))
    ELSE IF <<getChar(l, 0)>> \in reservedWords
    THEN Lexed(advance(l, 1), Token("KeywordToken", <<getChar(l, 0)>>, <<>>))
    ELSE IF getChar(l, 0) = "." /\ getChar(l, 1) = "." /\ getChar(l, 2) = "."
    THEN Lexed(advance(l, 3), Token("KeywordToken", <<".", ".", ".">>, <<>>))
    ELSE Failed(l, "LexerError")

lexIdentifierOrKeyword(l) ==
    IF isSymbolic(getChar(l, 0))
    THEN lexIdentifierOrKeyword_consumed(l.position, lexIdentifierOrKeyword_consume(l, TRUE),
                                         getChar(l, 0))
    ELSE IF isAlphanumeric(getChar(l, 0)) /\ ~isNumber(getChar(l, 0), FALSE)
            /\ getChar(l, 0) # "_"
    THEN lexIdentifierOrKeyword_consumed(l.position, lexIdentifierOrKeyword_consume(l, FALSE),
                                         getChar(l, 0))
    ELSE IF <<getChar(l, 0)>> \in reservedWords
    THEN Lexed(advance(l, 1), Token("KeywordToken", <<getChar(l, 0)>>, <<>>))
    ELSE IF getChar(l, 0) = "." /\ getChar(l, 1) = "." /\ getChar(l, 2) = "."
    THEN Lexed(advance(l, 3), Token("KeywordToken", <<".", ".", ".">>, <<>>))
    ELSE Failed(l, "LexerError")

\* t instanceof IdentifierToken || t instanceof StarToken, and no type variable
isIdentifierOrStar(t) ==
    t.type \in {"IdentifierToken", "AlphanumericIdentifierToken", "StarToken"}

RECURSIVE lexLongIdentifierOrKeyword_loop(_, _, _)

lexLongIdentifierOrKeyword_next_lax(tokenStart, t, qualifiers) ==
    IF t.l.err # "" THEN t
    ELSE IF getChar(t.l, 0) = "."
         THEN lexLongIdentifierOrKeyword_loop(tokenStart, t, qualifiers)
    ELSE Lexed(t.l, [Token("LongIdentifierToken",
                           substring(t.l, tokenStart, t.l.position), <<>>)
                     EXCEPT !.qualifiers = qualifiers, !.id = t.token.text])

\* the end of one round of the do-while loop: t is what lexIdentifierOrKeyword
\* left for the part after the "."
lexLongIdentifierOrKeyword_next(tokenStart, t, qualifiers) ==
    IF t.l.err # "" THEN t
    ELSE IF getChar(t.l, 0) = "."
         THEN lexLongIdentifierOrKeyword_loop(tokenStart, t, qualifiers)
    ELSE IF ~isIdentifierOrStar(t.token) THEN Failed(t.l, "LexerError")
    ELSE Lexed(t.l, [Token("LongIdentifierToken",
                           substring(t.l, tokenStart, t.l.position), <<>>)
                     EXCEPT !.qualifiers = qualifiers, !.id = t.token.text])

\* one round of the do-while loop: the lexer of t is at a "."
lexLongIdentifierOrKeyword_loop(tokenStart, t, qualifiers) ==
    IF t.token.type # "AlphanumericIdentifierToken"
    THEN Failed(advance(t.l, 1), "LexerError")
    ELSE lexLongIdentifierOrKeyword_next(
             tokenStart,
             lexIdentifierOrKeyword([advance(t.l, 1) EXCEPT !.tokenStart = t.l.position + 1]),
             Append(qualifiers, t.token.text))

lexLongIdentifierOrKeyword_first(tokenStart, t) ==
    IF t.l.err # "" THEN t
    ELSE IF getChar(t.l, 0) = "." /\ getChar(t.l, 1) = "." /\ getChar(t.l, 2) = "." THEN t
    ELSE IF getChar(t.l, 0) # "." THEN t
    ELSE lexLongIdentifierOrKeyword_loop(tokenStart, t, <<>>)

lexLongIdentifierOrKeyword(l) ==
    lexLongIdentifierOrKeyword_first(l.tokenStart, lexIdentifierOrKeyword(l))

\* the white space and the comments after the token are skipped before it is
\* returned
nextToken_skip(t) ==
    IF t.l.err # "" THEN t
    ELSE Lexed(skipWhitespaceAndComments(t.l), t.token)

nextToken_lex(l) ==
    IF isNumber(getChar(l, 0), FALSE)
       \/ (getChar(l, 0) = "~" /\ isNumber(getChar(l, 1), FALSE))
    THEN lexNumber(l)
    ELSE IF getChar(l, 0) = "\"" THEN lexString(l)
    ELSE IF getChar(l, 0) = "#" /\ getChar(l, 1) = "\"" THEN lexCharacter(l)
    ELSE lexLongIdentifierOrKeyword(l)

nextToken(l) ==
    nextToken_skip(nextToken_lex([l EXCEPT !.tokenStart = l.position]))

finished(l) == l.position >= Len(l.input)

\* what lex leaves: the tokens it returns, or the error it throws
Tokens(result) == [outcome |-> "tokens", err |-> "", tokens |-> result]

Thrown(err) == [outcome |-> "error", err |-> err, tokens |-> <<>>]

RECURSIVE lex_loop(_, _)

lex_push(t, result) ==
    IF t.l.err # "" THEN Thrown(t.l.err)
    ELSE lex_loop(t.l, Append(result, t.token))

\* while (!l.finished()) result.push(l.nextToken())
lex_loop(l, result) ==
    IF l.err # "" THEN Thrown(l.err)
    ELSE IF finished(l) THEN Tokens(result)
    ELSE lex_push(nextToken(l), result)

lex(s, options) == lex_loop(skipWhitespaceAndComments(Lexer(s, options)), <<>>)

(* --------------------------- lexing inputs ------------------------------ *)

\* the longest input of the comment family, in pieces
MaxPieces == 4

\* the longest input of the number family, in characters
MaxChars == 3

\* the sequences over a set of at most n elements
SeqsUpTo(S, n) == UNION {[1..k -> S] : k \in 0..n}

RECURSIVE Flatten(_)
Flatten(pieces) == IF pieces = <<>> THEN <<>> ELSE Head(pieces) \o Flatten(Tail(pieces))

\* comment brackets, single brackets, an identifier and a character no token
\* starts with
CommentPieces == {<<"(", "*">>, <<"*", ")">>, <<"a">>, <<".">>, <<"(">>, <<")">>}

CommentInputs == {Flatten(p) : p \in SeqsUpTo(CommentPieces, MaxPieces)}

LexInit ==
    /\ heap = <<InitialState>>
    /\ state = 1
    /\ known = <<>>
    /\ intros = <<>>
    /\ last = NoCall
    /\ used = 0
    /\ suite = "lexer"
    /\ NoRepl

Scanned(family, input, options, result) ==
    [outcome |-> "lexed", family |-> family, input |-> input, options |-> options,
     result |-> result]

Options(allowUnicodeInStrings) == [allowUnicodeInStrings |-> allowUnicodeInStrings]

LexComments ==
    /\ last = NoCall
    /\ \E s \in CommentInputs :
        /\ last' = Scanned("comments", s, Options(FALSE), lex(s, Options(FALSE)))
        /\ UNCHANGED session

\* string and character constants that lex, alone or after another token
StringLiterals ==
    <<
      <<"\"", "a", "\"">>,
      <<"\"", "\\", "n", "\"">>,
      <<"\"", "\\", "^", "A", "\"">>,
      <<"\"", "\\", "0", "6", "5", "\"">>,
      <<"\"", "\\", "u", "0", "0", "4", "1", "\"">>,
      <<"\"", "a", "\\", " ", "\\", "b", "\"">>,
      <<"#", "\"", "a", "\"">>,
      <<"x", "\"", "a", "b", "\"">>,
      <<"\"", "\\", "\\", "\"">>,
      <<"\"", "\\", "\"", "\"">>,
      <<"#", "\"", "\\", "^", "A", "\"">>,
      <<"\"", "\\", "u", "0", "1", "0", "0", "\"">>,
      <<"\"", "a", "\"", " ", "\"", "b", "\"">>
    >>

\* the index of the quote that opens the last string of a literal
RECURSIVE OpeningQuote(_, _, _)
OpeningQuote(s, i, found) ==
    IF i >= Len(s) THEN found
    ELSE IF s[i] = "\\" THEN OpeningQuote(s, i + 2, found)
    ELSE IF s[i] = "\"" THEN OpeningQuote(s, i + 1, IF found = 0 THEN i ELSE 0)
    ELSE OpeningQuote(s, i + 1, found)

\* lex called on the first cut characters of a literal
Cut(whole, cut, options, result) ==
    [outcome |-> "lexed", family |-> "strings", input |-> SubSeq(whole, 1, cut),
     options |-> options, result |-> result, whole |-> whole, cut |-> cut]

LexStrings ==
    /\ last = NoCall
    /\ \E i \in 1..Len(StringLiterals), allowUnicodeInStrings \in BOOLEAN :
        \E cut \in 0..Len(StringLiterals[i]) :
            /\ last' = Cut(StringLiterals[i], cut, Options(allowUnicodeInStrings),
                           lex(SubSeq(StringLiterals[i], 1, cut),
                               Options(allowUnicodeInStrings)))
            /\ UNCHANGED session

\* the characters of the number family: digits, the sign, the letters of the
\* prefixes, of the exponent and of a hexadecimal digit, and the point
NumberCharacters == {"0", "1", "~", "w", "x", ".", "e", "a"}

NumberInputs == SeqsUpTo(NumberCharacters, MaxChars)

LexNumbers ==
    /\ last = NoCall
    /\ \E s \in NumberInputs :
        /\ last' = Scanned("numbers", s, Options(FALSE), lex(s, Options(FALSE)))
        /\ UNCHANGED session

\* inputs of the tests of the lexer, and inputs with white space between tokens
Examples ==
    <<
      <<"(", "*", "*", ")", "t", "e", "s", "t">>,
      <<"(", "*", "t", "h", "i", "s", " ", "i", "s", " ", "a", " ", "c", "o", "m", "m", "e", "n",
        "t", " ", "*", ")", "t", "e", "s", "t">>,
      <<"(", "*", "t", "h", "i", "s", " ", "i", "s", " ", "a", " ", "(", "*", " ", "n", "e", "s",
        "t", "e", "d", " ", "(", "*", " ", "?", " ", "*", ")", " ", "*", ")", " ", "c", "o", "m",
        "m", "e", "n", "t", " ", "*", ")", "t", "e", "s", "t">>,
      <<"(", "*", " ", "i", "n", "c", "o", "m", "p", "l", "e", "t", "e">>,
      <<"*", ")", "t", "e", "s", "t">>,
      <<"1", "e", "2", " ", "1", "e", " ", "2">>,
      <<"0", "W", "1", "3", "3", "7">>,
      <<"0", "w", "0", "1", "3", "3", "7">>,
      <<"0", "0", "w", "0", "1">>,
      <<"~", "0", "w", "6", "9">>,
      <<"0", "X", "4", "a">>,
      <<"0", "x", "x", "4", "a">>,
      <<"~", "0", "0", "x", "6", "9">>,
      <<"0", "x", "a", "b", "c", "g", "c", "b", "a">>,
      <<"0", "E", "0">>,
      <<"0", "0", "4", "e", "1">>,
      <<"0", "x", "1", ".", "0", "9", "e", "0", "3">>,
      <<"0", "1", ".", "0", "x", "9", "e", "0", "3">>,
      <<"1", "2", ".", "3", "4", ".", "5", "6">>,
      <<"1", "2", "e", "3", "4", "e", "5", "6">>,
      <<"1", "2", "e", "3", "4", ".", "5", "6">>,
      <<".", "3", "4", "e", "5", "6">>,
      <<"1", "2", ".", "e", "5", "6">>,
      <<"1", "2", ".", "3", "4", "e">>,
      <<"1", "E">>,
      <<"1", "E", "~">>,
      <<"1", ".", "5", "E", "~", "2">>,
      <<" ", "a", "\n", "\t", "b", " ">>,
      <<"a", " ", "(", "*", " ", "c", " ", "*", ")", " ", "b", ".", "c">>,
      <<"v", "a", "l", " ", "x", " ", "=", " ", "0", "w", "x", "1", "f">>,
      <<"x", ":", ">", "y", " ", "=", ">", " ", "#", "\"", "a", "\"", " ", ".", ".", ".", " ",
        Apostrophe, "a", " ", Apostrophe, Apostrophe, "b", " ", "*", " ", "=">>,
      <<"1", "0", "7", "3", "7", "4", "1", "8", "2", "3", " ", "~", "1", "0", "7", "3", "7", "4",
        "1", "8", "2", "4">>,
      <<"~", "0", "\"", "a", " ", "\"", " ", "(", "*", " ", "*", ")", "\n", "b", ".", "c">>,
      <<"~", "0", "w", "1">>,
      <<"~", "0", "w", "x", "1">>,
      <<"~", "0", "x", "1">>,
      <<"1", ".", "0", "e">>,
      <<"0", "0", "x", "1">>,
      <<"1", "0", "x", "1">>,
      <<"0", "w", "x", "1">>,
      <<"0", "w", "x", "w">>,
      <<"0", "w", "x", "a">>,
      <<"1", ".", ".", ".">>,
      <<"1", "e", "~", "a">>,
      <<"1", "e", "~", "1">>,
      <<"1", ".", "e", "1">>,
      <<"0", "x", "1", "e">>,
      <<"1", "0", "7", "3", "7", "4", "1", "8", "2", "4">>,
      <<"~", "1", "0", "7", "3", "7", "4", "1", "8", "2", "5">>,
      <<"_", "_", "h", "i">>,
      <<"_", "_", "a", "r", "g", "0">>,
      <<"a", "_", "_", "a", "r", "g", "0">>,
      <<"_", "a">>,
      <<"a", ".", "_", "_", "a", "r", "g", "0">>,
      <<"f", "n", " ", "_", "_", "a", "r", "g", "1", " ", "=", ">", " ", "_", "_", "a", "r", "g",
        "1">>
    >>

LexExamples ==
    /\ last = NoCall
    /\ \E i \in 1..Len(Examples) :
        /\ last' = Scanned("examples", Examples[i], Options(FALSE),
                           lex(Examples[i], Options(FALSE)))
        /\ UNCHANGED session

\* the most components of a dotted name of the name family
MaxComponents == 3

\* what stands between the dots of the name family: an alphanumeric identifier,
\* a reserved word, a type variable, a symbolic identifier, the equals sign, the
\* star, a number and the wildcard
Components ==
    {<<"a">>, <<"i", "f">>, <<Apostrophe, "a">>, <<"=", "=">>, <<"=">>, <<"*">>, <<"1">>,
     <<"_">>}

\* a dot, alone or with white space on one side
Separators == {<<".">>, <<" ", ".">>, <<".", " ">>}

RECURSIVE Join(_, _, _)
\* the components from the i-th on, each after its separator
Join(components, separators, i) ==
    IF i > Len(components) THEN <<>>
    ELSE (IF i = 1 THEN <<>> ELSE separators[i - 1]) \o components[i]
         \o Join(components, separators, i + 1)

\* lex called on a dotted name
Dotted(components, separators, options, result) ==
    [outcome |-> "lexed", family |-> "names", input |-> Join(components, separators, 1),
     options |-> options, result |-> result, components |-> components,
     separators |-> separators]

LexNames ==
    /\ last = NoCall
    /\ \E n \in 2..MaxComponents :
        \E components \in [1..n -> Components], separators \in [1..(n - 1) -> Separators] :
            /\ last' = Dotted(components, separators, Options(FALSE),
                              lex(Join(components, separators, 1), Options(FALSE)))
            /\ UNCHANGED session

LexNext == LexComments \/ LexStrings \/ LexNumbers \/ LexExamples \/ LexNames

LexSpec == LexInit /\ [][LexNext]_vars

(* -------------------------- claims: the lexer --------------------------- *)

\* the two characters of s from index i on are a and b
At(s, i, a, b) == i < Len(s) /\ s[i] = a /\ s[i + 1] = b

RECURSIVE OpenAt(_, _, _, _)
\* the index at which the outermost comment left open at the end of s starts, 0
\* if every comment of s is closed; s holds no string literal
OpenAt(s, i, depth, start) ==
    IF i > Len(s) THEN (IF depth > 0 THEN start ELSE 0)
    ELSE IF At(s, i, "(", "*")
         THEN OpenAt(s, i + 2, depth + 1, IF depth = 0 THEN i ELSE start)
    ELSE IF depth > 0 /\ At(s, i, "*", ")") THEN OpenAt(s, i + 2, depth - 1, start)
    ELSE OpenAt(s, i + 1, depth, start)

RECURSIVE Blank(_, _, _)
\* s with every character of a comment replaced by a space
Blank(s, i, depth) ==
    IF i > Len(s) THEN <<>>
    ELSE IF At(s, i, "(", "*") THEN <<" ", " ">> \o Blank(s, i + 2, depth + 1)
    ELSE IF depth > 0 /\ At(s, i, "*", ")") THEN <<" ", " ">> \o Blank(s, i + 2, depth - 1)
    ELSE <<IF depth > 0 THEN " " ELSE s[i]>> \o Blank(s, i + 1, depth)

\* the text before the comment that is left open
Before(s) == SubSeq(s, 1, OpenAt(s, 1, 0, 0) - 1)

\* C16 as stated: comments nest, a closed comment yields no token, and an
\* input with a comment left open fails with IncompleteError whatever stands
\* before the comment
C16_UnclosedAlwaysIncomplete ==
    (last.outcome = "lexed" /\ last.family = "comments") =>
        IF OpenAt(last.input, 1, 0, 0) > 0
        THEN last.result = Thrown("IncompleteError")
        ELSE last.result = lex(Blank(last.input, 1, 0), last.options)

\* C16: comments nest, and a closed comment yields no token: the input lexes
\* as it does with the comment blanked out; an input with a comment left open
\* fails with IncompleteError when the text before that comment lexes, and with
\* the error of that text otherwise
C16_CommentsNest ==
    (last.outcome = "lexed" /\ last.family = "comments") =>
        IF OpenAt(last.input, 1, 0, 0) > 0
        THEN last.result =
                 IF lex(Before(last.input), last.options).outcome = "tokens"
                 THEN Thrown("IncompleteError")
                 ELSE lex(Before(last.input), last.options)
        ELSE last.result = lex(Blank(last.input, 1, 0), last.options)

\* a nested comment whose outer bracket is left open, after an identifier
C16_Witness ==
    /\ last.outcome = "lexed"
    /\ last.input = <<"a", "(", "*", "(", "*", "*", ")">>
    /\ last.result = Thrown("IncompleteError")

\* C17: an input cut inside a string or character constant, after the opening
\* quote and before the closing one, of an input that lexes, fails with
\* IncompleteError
C17_CutStringIncomplete ==
    (/\ last.outcome = "lexed" /\ last.family = "strings"
     /\ lex(last.whole, last.options).outcome = "tokens"
     /\ last.cut >= OpeningQuote(last.whole, 1, 0)
     /\ last.cut < Len(last.whole)) =>
        last.result = Thrown("IncompleteError")

\* the character of s at index i, counted from 1
CharAt(s, i) == IF i >= 1 /\ i <= Len(s) THEN s[i] ELSE EndOfTransmission

IsDigit(c) == c \in {"0", "1", "2", "3", "4", "5", "6", "7", "8", "9"}

RECURSIVE DigitsEnd(_, _)
\* the index after the digits of s that start at index i
DigitsEnd(s, i) == IF IsDigit(CharAt(s, i)) THEN DigitsEnd(s, i + 1) ELSE i

\* the index after the sign, if s has one
SignEnd(s) == IF CharAt(s, 1) = "~" THEN 2 ELSE 1

\* the index after the digits s starts with, behind the sign
IntegerEnd(s) == DigitsEnd(s, SignEnd(s))

\* the index after the decimal literal s starts with, exponent apart: a sign,
\* digits, and a point with digits; 0 if s starts with none
LiteralEnd(s) ==
    IF IntegerEnd(s) = SignEnd(s) THEN 0
    ELSE IF CharAt(s, IntegerEnd(s)) = "." /\ IsDigit(CharAt(s, IntegerEnd(s) + 1))
         THEN DigitsEnd(s, IntegerEnd(s) + 1)
    ELSE IntegerEnd(s)

\* the literal is followed by a point that no digit follows
DotCase(s) ==
    /\ LiteralEnd(s) > 0
    /\ CharAt(s, LiteralEnd(s)) = "."
    /\ ~IsDigit(CharAt(s, LiteralEnd(s) + 1))

\* the literal is followed by an e that neither a digit nor ~ and a digit follow
ExpCase(s) ==
    /\ LiteralEnd(s) > 0
    /\ CharAt(s, LiteralEnd(s)) \in {"e", "E"}
    /\ ~IsDigit(CharAt(s, LiteralEnd(s) + 1))
    /\ ~(CharAt(s, LiteralEnd(s) + 1) = "~" /\ IsDigit(CharAt(s, LiteralEnd(s) + 2)))

\* the values of tokenStart at the calls of nextToken that lex makes on the
\* input s: the offsets at which the tokens it returns start
RECURSIVE nextToken_starts(_, _)
nextToken_starts(l, starts) ==
    IF l.err # "" \/ finished(l) THEN starts
    ELSE nextToken_starts(nextToken(l).l, Append(starts, l.position))

TokenStarts(s, options) ==
    nextToken_starts(skipWhitespaceAndComments(Lexer(s, options)), <<>>)

\* what lex leaves for an input whose first characters lex as a and whose other
\* characters lex as b
Then(a, b) ==
    IF a.outcome = "error" THEN a
    ELSE IF b.outcome = "error" THEN b
    ELSE Tokens(a.tokens \o b.tokens)

\* s cut before index i, and from index i on
Upto(s, i) == SubSeq(s, 1, i - 1)

From(s, i) == SubSeq(s, i, Len(s))

Numbers == last.outcome = "lexed" /\ last.family \in {"numbers", "examples"}

\* C18 as stated: a decimal literal followed by a point without a digit, or by
\* an e without a digit, makes lex fail with LexerError
C18_MissingDigitsRejected ==
    (Numbers /\ (DotCase(last.input) \/ ExpCase(last.input))) =>
        last.result = Thrown("LexerError")

\* C18: the literal ends before such a point or e and lexing goes on there; the
\* point is rejected with LexerError unless it starts "...", while the e begins
\* an identifier and is no error
C18_LiteralEndsBeforePointOrE ==
    (Numbers /\ (DotCase(last.input) \/ ExpCase(last.input))) =>
        /\ last.result = Then(lex(Upto(last.input, LiteralEnd(last.input)), last.options),
                              lex(From(last.input, LiteralEnd(last.input)), last.options))
        /\ (/\ DotCase(last.input)
            /\ ~(/\ CharAt(last.input, LiteralEnd(last.input) + 1) = "."
                 /\ CharAt(last.input, LiteralEnd(last.input) + 2) = "."))
               => last.result = Thrown("LexerError")
        /\ (ExpCase(last.input) /\ last.result.outcome = "tokens") =>
               /\ Len(last.result.tokens) >= 2
               /\ last.result.tokens[1].text = Upto(last.input, LiteralEnd(last.input))
               /\ TokenStarts(last.input, last.options)[2] = LiteralEnd(last.input) - 1
               /\ last.result.tokens[2].type
                      \in {"AlphanumericIdentifierToken", "LongIdentifierToken", "KeywordToken"}
        /\ (ExpCase(last.input) /\ Len(last.input) = LiteralEnd(last.input)) =>
               last.result.outcome = "tokens"

\* a literal with a fraction followed by an e alone: a real constant, then the
\* identifier e
C18_Witness ==
    /\ last.outcome = "lexed"
    /\ last.input = <<"1", ".", "0", "e">>
    /\ last.result.outcome = "tokens"
    /\ Len(last.result.tokens) = 2
    /\ last.result.tokens[2].type = "AlphanumericIdentifierToken"

\* s starts with a sign or not, digits of which the last is 0, and a letter w
\* or x, small or capital
ZeroBeforeLetter(s) ==
    /\ IntegerEnd(s) > SignEnd(s)
    /\ CharAt(s, IntegerEnd(s) - 1) = "0"
    /\ CharAt(s, IntegerEnd(s)) \in {"w", "x", "W", "X"}

\* the digit that has to follow the prefix, and whether it is one of its base
PrefixDigit(s) ==
    CharAt(s, IntegerEnd(s)
              + (IF CharAt(s, IntegerEnd(s)) = "w" /\ CharAt(s, IntegerEnd(s) + 1) = "x"
                 THEN 2 ELSE 1))

PrefixHexadecimal(s) ==
    \/ CharAt(s, IntegerEnd(s)) = "x"
    \/ CharAt(s, IntegerEnd(s)) = "w" /\ CharAt(s, IntegerEnd(s) + 1) = "x"

HexDigit(c) == IsDigit(c) \/ c \in {"a", "b", "c", "d", "e", "f", "A", "B", "C", "D", "E", "F"}

\* the letter starts no prefix: it is capital, or further digits stand before
\* the zero, or the sign stands before a word prefix, or no digit of the base
\* follows the prefix
NoPrefix(s) ==
    /\ ZeroBeforeLetter(s)
    /\ \/ CharAt(s, IntegerEnd(s)) \in {"W", "X"}
       \/ IntegerEnd(s) - SignEnd(s) > 1
       \/ SignEnd(s) = 2 /\ CharAt(s, IntegerEnd(s)) = "w"
       \/ ~(IF PrefixHexadecimal(s) THEN HexDigit(PrefixDigit(s))
            ELSE IsDigit(PrefixDigit(s)))

\* C19: where the letter starts no prefix, the digits before it are an integer
\* constant of their own (the signed zero, of value 0, if no further digit stands
\* before the zero) and lexing goes on at the letter, which begins an identifier
C19_NoPrefixZeroThenIdentifier ==
    (Numbers /\ NoPrefix(last.input)) =>
        /\ last.result = Then(lex(Upto(last.input, IntegerEnd(last.input)), last.options),
                              lex(From(last.input, IntegerEnd(last.input)), last.options))
        /\ IntegerEnd(last.input) - SignEnd(last.input) = 1 =>
               lex(Upto(last.input, IntegerEnd(last.input)), last.options)
                   = Tokens(<<Token("IntegerConstantToken",
                                    Upto(last.input, IntegerEnd(last.input)), <<0>>)>>)
        /\ last.result.outcome = "tokens" =>
               /\ Len(last.result.tokens) >= 2
               /\ last.result.tokens[1].type \in {"IntegerConstantToken", "NumericToken"}
               /\ last.result.tokens[1].text = Upto(last.input, IntegerEnd(last.input))
               /\ TokenStarts(last.input, last.options)[2] = IntegerEnd(last.input) - 1
               /\ last.result.tokens[2].type
                      \in {"AlphanumericIdentifierToken", "LongIdentifierToken", "KeywordToken"}

\* a word prefix after the sign: the constant ~0, then the identifier w1
C19_Witness ==
    /\ last.outcome = "lexed"
    /\ last.input = <<"~", "0", "w", "1">>
    /\ last.result.outcome = "tokens"
    /\ Len(last.result.tokens) = 2
    /\ last.result.tokens[1].text = <<"~", "0">>
    /\ last.result.tokens[2].text = <<"w", "1">>

\* a stretch of input between two tokens: white space and closed comments only
Skipped(gap) ==
    /\ OpenAt(gap, 1, 0, 0) = 0
    /\ \A k \in 1..Len(gap) : isWhitespace(Blank(gap, 1, 0)[k])

\* where the token before the i-th one ends, and where the i-th one starts; the
\* end of the input stands for a token after the last one
EndOf(ts, starts, i) == IF i = 0 THEN 0 ELSE starts[i] + Len(ts[i].text)

StartOf(starts, s, i) == IF i > Len(starts) THEN Len(s) ELSE starts[i]

\* the texts of the tokens ts stand in s at the offsets starts, in order and
\* without overlap, and what lies before, between and after them is white
\* space and comments
Reproduces(s, ts, starts) ==
    /\ Len(starts) = Len(ts)
    /\ \A i \in 1..Len(ts) :
           /\ ts[i].text # <<>>
           /\ ts[i].text = SubSeq(s, starts[i] + 1, EndOf(ts, starts, i))
    /\ \A i \in 1..(Len(ts) + 1) :
           /\ EndOf(ts, starts, i - 1) <= StartOf(starts, s, i)
           /\ Skipped(SubSeq(s, EndOf(ts, starts, i - 1) + 1, StartOf(starts, s, i)))

\* on an input that lexes, every token's text stands in the input at the
\* offset at which the lexer started the token (tokenStart), the tokens follow
\* each other in order without overlap, and what lies before, between and
\* after them is white space and comments
TextsStandAtTokenStart ==
    (last.outcome = "lexed" /\ last.result.outcome = "tokens") =>
        Reproduces(last.input, last.result.tokens, TokenStarts(last.input, last.options))

\* the offsets the tokens store
StoredOffsets(ts) == [i \in 1..Len(ts) |-> ts[i].position]

\* C20: on an input that lexes, every token stores an offset, and writing each
\* token's stored text at its stored offset reproduces the input up to white
\* space and comments
C20_TokensReproduceInput ==
    (last.outcome = "lexed" /\ last.result.outcome = "tokens") =>
        /\ \A i \in 1..Len(last.result.tokens) : "position" \in DOMAIN last.result.tokens[i]
        /\ Reproduces(last.input, last.result.tokens, StoredOffsets(last.result.tokens))

\* the components that are alphanumeric identifiers, and those that may end a
\* long identifier
Alphanumeric(c) == c = <<"a">>

Final(c) == c \in {<<"a">>, <<"=", "=">>, <<"*">>}

\* a dotted name that is one long identifier: no white space at a dot, only
\* alphanumeric identifiers before the last dot, an identifier or the star after
WellFormedName(components, separators) ==
    /\ \A i \in 1..Len(separators) : separators[i] = <<".">>
    /\ \A i \in 1..(Len(components) - 1) : Alphanumeric(components[i])
    /\ Final(components[Len(components)])

\* a number, a dot and a number, which lexNumber reads as one real constant
RealConstant(components, separators) ==
    /\ Len(components) = 2
    /\ components[1] = <<"1">> /\ components[2] = <<"1">> /\ separators[1] = <<".">>

\* the dotted name is lexed as one long identifier token, the components before
\* the last dot being its qualifiers
OneLongIdentifier ==
    /\ last.result.outcome = "tokens"
    /\ Len(last.result.tokens) = 1
    /\ last.result.tokens[1].type = "LongIdentifierToken"
    /\ last.result.tokens[1].text = last.input
    /\ last.result.tokens[1].qualifiers = SubSeq(last.components, 1, Len(last.components) - 1)
    /\ last.result.tokens[1].id = last.components[Len(last.components)]

\* C21, as stated: a dotted name lexes as one long identifier token if it is
\* well formed, and every other dotted form makes lex fail with LexerError
C21_EveryOtherFormFails ==
    (last.outcome = "lexed" /\ last.family = "names") =>
        IF WellFormedName(last.components, last.separators)
        THEN OneLongIdentifier
        ELSE last.result = Thrown("LexerError")

\* C21, amended: a dotted name lexes as one long identifier token if it is
\* well formed; a number, a dot and a number lex as one real constant token;
\* every other dotted form makes lex fail with LexerError
C21_LongIdentifiers ==
    (last.outcome = "lexed" /\ last.family = "names") =>
        IF WellFormedName(last.components, last.separators)
        THEN OneLongIdentifier
        ELSE IF RealConstant(last.components, last.separators)
             THEN /\ last.result.outcome = "tokens"
                  /\ Len(last.result.tokens) = 1
                  /\ last.result.tokens[1].type = "RealConstantToken"
                  /\ last.result.tokens[1].text = last.input
        ELSE last.result = Thrown("LexerError")

\* a name of three components whose last component is the equals sign is
\* rejected
C21_Witness ==
    /\ last.outcome = "lexed" /\ last.family = "names"
    /\ last.input = <<"a", ".", "a", ".", "=">>
    /\ last.result = Thrown("LexerError")

(* ------------------------- fixity resolution --------------------------- *)
(* The parser's pass over an application chain  e1 op1 e2 ... opn e(n+1):  *)
(* the chain is folded by precedence and associativity into nested         *)
(* FunctionApplication(op, Tuple[lhs, rhs]) nodes.  An operator is given   *)
(* by its infix status; operand i and operator j are named by position.    *)

\* longest chain, counted in operators
MaxOps == 3
\* precedences run from 0 to this one
MaxPrecedence == 2

Operand(i) == ValueIdentifier(<<"operand", i>>)

Operator(j) == ValueIdentifier(<<"operator", j>>)

ParserError == [e |-> "ParserError"]

Lowest(ops, lo, hi) ==
    CHOOSE p \in 0..9 :
        /\ \E j \in lo..(hi - 1) : ops[j].precedence = p
        /\ \A j \in lo..(hi - 1) : ops[j].precedence >= p

AtLowest(ops, lo, hi) == {j \in lo..(hi - 1) : ops[j].precedence = Lowest(ops, lo, hi)}

reParse_join(ops, root, lhs, rhs) ==
    IF lhs = ParserError \/ rhs = ParserError THEN ParserError
    ELSE FunctionApplication(Operator(root), Tuple(<<lhs, rhs>>))

\* a resolver that rejects two operators of equal precedence and different
\* associativity wherever they stand in the chain
RECURSIVE reParse_anywhere(_, _, _)
reParse_anywhere(ops, lo, hi) ==
    IF lo = hi THEN Operand(lo)
    ELSE IF \E i, j \in lo..(hi - 1) :
                /\ ops[i].precedence = ops[j].precedence
                /\ ops[i].rightAssociative # ops[j].rightAssociative
    THEN ParserError
    ELSE LET root == IF \E j \in AtLowest(ops, lo, hi) : ops[j].rightAssociative
                     THEN CHOOSE j \in AtLowest(ops, lo, hi) :
                              \A k \in AtLowest(ops, lo, hi) : j <= k
                     ELSE CHOOSE j \in AtLowest(ops, lo, hi) :
                              \A k \in AtLowest(ops, lo, hi) : j >= k
         IN  reParse_join(ops, root, reParse_anywhere(ops, lo, root),
                          reParse_anywhere(ops, root + 1, hi))

\* the tree of operands lo..hi: the operators of the lowest precedence are
\* applied last, a left-associative run from the left and a
\* right-associative run from the right; a run of both kinds collides
RECURSIVE reParse(_, _, _)
reParse(ops, lo, hi) ==
    IF lo = hi THEN Operand(lo)
    ELSE IF \E i, j \in AtLowest(ops, lo, hi) :
                ops[i].rightAssociative # ops[j].rightAssociative
    THEN ParserError
    ELSE LET root == IF \E j \in AtLowest(ops, lo, hi) : ops[j].rightAssociative
                     THEN CHOOSE j \in AtLowest(ops, lo, hi) :
                              \A k \in AtLowest(ops, lo, hi) : j <= k
                     ELSE CHOOSE j \in AtLowest(ops, lo, hi) :
                              \A k \in AtLowest(ops, lo, hi) : j >= k
         IN  reParse_join(ops, root, reParse(ops, lo, root), reParse(ops, root + 1, hi))

InfixStatus(precedence, rightAssociative) ==
    [precedence |-> precedence, rightAssociative |-> rightAssociative, infix |-> TRUE]

InfixStatuses == {InfixStatus(p, r) : p \in 0..MaxPrecedence, r \in BOOLEAN}

Chains == SeqsUpTo(InfixStatuses, MaxOps) \ {<<>>}

FixityInit ==
    /\ heap = <<InitialState>>
    /\ state = 1
    /\ known = <<>>
    /\ intros = <<>>
    /\ last = NoCall
    /\ used = 0
    /\ suite = "fixity"
    /\ NoRepl

Resolved(ops, result) == [outcome |-> "resolved", ops |-> ops, result |-> result]

\* one application chain is resolved
ParseChain ==
    \E ops \in IF last = NoCall THEN Chains ELSE {} :
        /\ last = NoCall
        /\ last' = Resolved(ops, reParse(ops, 1, Len(ops) + 1))
        /\ UNCHANGED session

(* ---------------------- fixity directives in a let ---------------------- *)
(* While parsing, a fixity directive is applied to the parser's current    *)
(* state at once; let ... in ... end is parsed in a nested state, and      *)
(* parsing resumes in the enclosing state after end.  `known` is the stack *)
(* of enclosing states, each with the statuses it answered at the let.     *)

\* fixity directives in one input
MaxDirectives == 2
\* let expressions in one input
MaxLets == 2

FixityNames == {"f", "g"}

InfixStatusOf(heap_, state_) == [n \in FixityNames |-> getInfixStatus(heap_, state_, n)]

Directed(kind, name, r) ==
    [outcome |-> "directive", kind |-> kind, name |-> name, base |-> state, state |-> r.st]

\* infix <p> name, infixr <p> name or nonfix name
Directive ==
    \E kind \in {"infix", "infixr", "nonfix"}, name \in FixityNames, p \in {0, MaxPrecedence} :
        /\ last.outcome # "resolved"
        /\ used < MaxDirectives
        /\ LET w == [heap |-> heap] @@ NoEvents
               r == CASE kind = "infix" ->
                             InfixDeclaration_evaluate(w, InfixDeclaration(<<name>>, p, 0), state)
                      [] kind = "infixr" ->
                             InfixRDeclaration_evaluate(w, InfixRDeclaration(<<name>>, p, 0), state)
                      [] kind = "nonfix" ->
                             NonfixDeclaration_evaluate(w, NonfixDeclaration(<<name>>, 0), state)
           IN  /\ heap' = r.w.heap
               /\ state' = r.st
               /\ last' = Directed(kind, name, r)
        /\ used' = used + 1
        /\ UNCHANGED <<known, intros, suite, tmp, printOpts>>

\* let: what follows is parsed in a nested state
Let ==
    /\ last.outcome # "resolved"
    /\ Len(heap) <= MaxLets
    /\ LET r == getNestedState([heap |-> heap] @@ NoEvents, state, heap[state].id)
       IN  /\ heap' = r.w.heap
           /\ state' = r.st
           /\ last' = [outcome |-> "let", base |-> state, state |-> r.st]
    /\ known' = Append(known, [state |-> state, infix |-> InfixStatusOf(heap, state)])
    /\ UNCHANGED <<intros, used, suite, tmp, printOpts>>

\* end: parsing resumes in the state the let was met in
End ==
    /\ last.outcome # "resolved"
    /\ Len(known) > 0
    /\ state' = known[Len(known)].state
    /\ known' = SubSeq(known, 1, Len(known) - 1)
    /\ last' = [outcome |-> "end", base |-> state, state |-> known[Len(known)].state,
                before |-> known[Len(known)].infix,
                after |-> InfixStatusOf(heap, known[Len(known)].state)]
    /\ UNCHANGED <<heap, intros, used, suite, tmp, printOpts>>

FixityNext == ParseChain \/ Directive \/ Let \/ End

FixitySpec == FixityInit /\ [][FixityNext]_vars

\* C23: a fixity directive inside let ... in ... end governs parsing up to
\* the matching end only: after end every identifier has the infix status,
\* precedence and associativity it had immediately before the let, for any
\* nesting of lets.
C23_FixityRestoredAfterEnd ==
    /\ last.outcome = "end" => last.after = last.before
    /\ \A i \in 1..Len(known) : InfixStatusOf(heap, known[i].state) = known[i].infix

\* infix f; let nonfix f in ... end: f is infix again
C23_Witness ==
    /\ last.outcome = "end"
    /\ last.after["f"] = InfixStatus(0, FALSE)
    /\ getInfixStatus(heap, last.base, "f") = [precedence |-> 0, rightAssociative |-> FALSE,
                                               infix |-> FALSE]
    /\ getInfixStatus(heap, state, "f") = InfixStatus(0, FALSE)


\* operators i < j of the chain compete for an operand: they have the same
\* precedence and every operator between them binds tighter
Compete(ops, i, j) ==
    /\ i < j
    /\ ops[i].precedence = ops[j].precedence
    /\ \A k \in (i + 1)..(j - 1) : ops[k].precedence > ops[i].precedence

Colliding(ops) ==
    \E i, j \in 1..Len(ops) :
        Compete(ops, i, j) /\ ops[i].rightAssociative # ops[j].rightAssociative

\* C22: resolving a chain fails with ParserError exactly when two of its
\* operators of equal precedence compete for an operand and one is left- and
\* the other right-associative; equal associativity, different precedence,
\* or a lower-precedence operator between the two never fails.
C22_CollidingAssociativities ==
    last.outcome = "resolved" =>
        ((last.result = ParserError) <=> Colliding(last.ops))

\* infix 1 f; infixr 1 g; infix 2 k; a f b k c g d: f and g compete for b k c
C22_Witness ==
    /\ last.outcome = "resolved"
    /\ last.ops = <<InfixStatus(1, FALSE), InfixStatus(2, FALSE), InfixStatus(1, TRUE)>>
    /\ last.result = ParserError

\* the chains of the parser's infix tests and the trees they expect
InfixTests ==
    /\ reParse(<<InfixStatus(0, FALSE), InfixStatus(0, FALSE), InfixStatus(0, FALSE)>>, 1, 4)
         = FunctionApplication(Operator(3), Tuple(<<
               FunctionApplication(Operator(2), Tuple(<<
                   FunctionApplication(Operator(1), Tuple(<<Operand(1), Operand(2)>>)),
                   Operand(3)>>)),
               Operand(4)>>))
    /\ reParse(<<InfixStatus(0, TRUE), InfixStatus(0, TRUE), InfixStatus(0, TRUE)>>, 1, 4)
         = FunctionApplication(Operator(1), Tuple(<<Operand(1),
               FunctionApplication(Operator(2), Tuple(<<Operand(2),
                   FunctionApplication(Operator(3), Tuple(<<Operand(3), Operand(4)>>))>>))>>))
    /\ reParse(<<InfixStatus(1, FALSE), InfixStatus(0, FALSE), InfixStatus(1, TRUE)>>, 1, 4)
         = FunctionApplication(Operator(2), Tuple(<<
               FunctionApplication(Operator(1), Tuple(<<Operand(1), Operand(2)>>)),
               FunctionApplication(Operator(3), Tuple(<<Operand(3), Operand(4)>>))>>))
    /\ reParse(<<InfixStatus(0, FALSE), InfixStatus(0, TRUE)>>, 1, 3) = ParserError

(* ------------------------- simplification of fun ------------------------ *)
(* FunctionDeclaration.simplify and FunctionValueBinding.simplify          *)
(* (declarations.ts), applied to single fun declarations.                  *)

\* curried parameters of a clause
MaxParams == 2
\* clauses of a function binding
MaxClauses == 2

(* inputs *)

Id(name) == ValueIdentifier(name)

\* patterns a parameter is written as
ParameterPatterns == {Id("x"), Tuple(<<Id("y"), Wildcard>>)}

ClauseBodies == {Constant(1), FunctionApplication(Id("f"), Tuple(<<Id("x"), Id("y")>>))}

ResultTypes == {Undefined, CustomType("int")}

Clauses(n) == [1..n -> ParameterPatterns] \X ResultTypes \X ClauseBodies

\* the clauses of fun f p11 .. p1n = e1 | ... | f pk1 .. pkn = ek
FunctionValueBindings(n, k) == [1..k -> Clauses(n)]

SimplifyInit ==
    /\ heap = <<InitialState>>
    /\ state = 1
    /\ known = <<>>
    /\ intros = <<>>
    /\ last = NoCall
    /\ used = 0
    /\ suite = "simplify"
    /\ NoRepl

Simplified(this, result) ==
    [outcome |-> IF result = InternalInterpreterError THEN "InternalInterpreterError"
                 ELSE "simplified",
     this |-> this, result |-> result]

\* the names a function binding can carry when it is simplified: the name
\* the parser has found, or none yet
BindingNames == {Id("f"), Undefined}

\* a fun declaration with one binding is simplified
Simplify ==
    \E n \in IF last = NoCall THEN 1..MaxParams ELSE {}, k \in 1..MaxClauses :
        \E parameters \in FunctionValueBindings(n, k), name \in BindingNames :
            /\ last = NoCall
            /\ last' = Simplified(FunctionValueBinding(parameters, name),
                                  FunctionDeclaration_simplify(FunctionDeclaration(
                                      <<FunctionValueBinding(parameters, name)>>, 0)))
            /\ UNCHANGED session

SimplifyNext == Simplify

SimplifySpec == SimplifyInit /\ [][SimplifyNext]_vars

\* exp is n nested single-rule lambdas over identifiers
RECURSIVE Nested(_, _)
Nested(exp, n) ==
    \/ n = 0
    \/ /\ exp.e = "Lambda"
       /\ Len(exp.match) = 1
       /\ exp.match[1][1].e = "ValueIdentifier"
       /\ Nested(exp.match[1][2], n - 1)

\* the parameters of the nested lambdas, outermost first, and what they enclose
RECURSIVE LambdaParameters(_, _)
LambdaParameters(exp, n) ==
    IF n = 0 THEN <<>>
    ELSE <<exp.match[1][1]>> \o LambdaParameters(exp.match[1][2], n - 1)

RECURSIVE Innermost(_, _)
Innermost(exp, n) == IF n = 0 THEN exp ELSE Innermost(exp.match[1][2], n - 1)

Arity(binding) == Len(binding.parameters[1][1])

SimplifiedTo(binding, vb, n, params, body) ==
    /\ vb.isRecursive
    /\ vb.pattern = binding.name
    /\ \A i, j \in 1..n : i # j => params[i] # params[j]
    /\ body.e = "CaseAnalysis"
    /\ body.expression = IF n = 1 THEN params[1]
                         ELSE Record(TRUE, [i \in 1..n |-> <<toString(i), params[i]>>])
    /\ Len(body.match) = Len(binding.parameters)
    /\ \A i \in 1..Len(binding.parameters) :
           /\ body.match[i][1] =
                  Expression_simplify(IF n = 1 THEN binding.parameters[i][1][1]
                                      ELSE Tuple(binding.parameters[i][1]))
           /\ body.match[i][2] =
                  IF binding.parameters[i][2] = Undefined
                  THEN Expression_simplify(binding.parameters[i][3])
                  ELSE TypedExpression(Expression_simplify(binding.parameters[i][3]),
                                       binding.parameters[i][2])

\* C24: a fun binding whose clauses have n >= 1 curried parameters each
\* becomes one recursive value binding of f to n nested single-rule lambdas
\* over pairwise distinct synthetic parameters; the innermost body is one
\* case analysis of the tuple of the parameters in order (of the parameter
\* itself when n = 1) with one rule per clause in source order: the clause's
\* parameter tuple as pattern, the clause body (in its result type
\* annotation, if any) as body.
C24_FunBecomesValRec ==
    last.outcome = "simplified" =>
        /\ Len(last.result.valueBinding) = 1
        /\ Nested(last.result.valueBinding[1].expression, Arity(last.this))
        /\ SimplifiedTo(last.this, last.result.valueBinding[1], Arity(last.this),
                        LambdaParameters(last.result.valueBinding[1].expression,
                                         Arity(last.this)),
                        Innermost(last.result.valueBinding[1].expression, Arity(last.this)))

\* fun f x (y, _) = 1 | f (y, _) x : int = f (x, y)
C24_Witness ==
    /\ last.outcome = "simplified"
    /\ Arity(last.this) = 2
    /\ Len(last.this.parameters) = 2
    /\ last.this.parameters[2][2] # Undefined
    /\ last.result.valueBinding[1].expression.match[1][1] = ValueIdentifier(IdentifierToken(0))
    /\ Innermost(last.result.valueBinding[1].expression, 2).match[2][2].e = "TypedExpression"

(* ----------------------- the read-eval-print loop ----------------------- *)
(* cli.ts: every line read is appended to the pending input tmp, which is  *)
(* handed to interpret together with the session state.  interpret         *)
(* (main.ts) lexes its input first; what it does with the tokens is left   *)
(* open: it returns a result with or without evaluationErrored, or throws. *)
(* `known` is the log of the lines read, each with what interpret did.     *)

\* lines read in one session
MaxLines == 3

\* the lines typed: a comment bracket, its closing bracket, a quote, a name
Lines == {<<"(", "*">>, <<"*", ")">>, <<"\"">>, <<"a", ";">>}

Result(thrown, evaluationErrored) ==
    [thrown |-> thrown, evaluationErrored |-> evaluationErrored]

\* what interpret(source, state, opts) can do, given what lexing source does
interpret_lexed(lexed) ==
    IF lexed = Thrown("IncompleteError") THEN {Result("IncompleteError", FALSE)}
    ELSE IF lexed.outcome = "error" THEN {Result("", TRUE), Result(lexed.err, FALSE)}
    ELSE {Result("", FALSE), Result("", TRUE), Result("IncompleteError", FALSE),
          Result("InternalInterpreterError", FALSE)}

interpret(source) == interpret_lexed(lex(source, Options(TRUE)))

ReplInit ==
    /\ heap = <<InitialState>>
    /\ state = 1
    /\ known = <<>>
    /\ intros = <<>>
    /\ last = NoCall
    /\ used = 0
    /\ suite = "repl"
    /\ tmp = <<>>
    /\ printOpts = [stopId |-> InitialState.id + 1]

Read(line, res) ==
    [outcome |-> "line", line |-> line, source |-> tmp \o line, res |-> res,
     pending |-> tmp, base |-> state, stopId |-> printOpts.stopId]

\* a handler that takes the returned state whether or not an error is reported
Line_adopt ==
    \E line \in IF used < MaxLines /\ last.outcome # "closed" THEN Lines ELSE {} :
        \E res \in interpret(tmp \o line) :
            /\ IF res.thrown = ""
               THEN /\ heap' = Append(heap, Frame(state, heap[state].id + 1))
                    /\ state' = Len(heap) + 1
                    /\ printOpts' = [printOpts EXCEPT !.stopId = heap[state].id + 2]
               ELSE UNCHANGED <<heap, state, printOpts>>
            /\ tmp' = IF res.thrown = "IncompleteError" THEN tmp \o line ELSE <<>>
            /\ known' = Append(known, [line |-> line, res |-> res])
            /\ last' = Read(line, res)
            /\ used' = used + 1
            /\ UNCHANGED <<intros, suite>>

\* a handler that clears the pending input only when a state is returned
Line_keep ==
    \E line \in IF used < MaxLines /\ last.outcome # "closed" THEN Lines ELSE {} :
        \E res \in interpret(tmp \o line) :
            /\ IF res.thrown = "" /\ ~res.evaluationErrored
               THEN /\ heap' = Append(heap, Frame(state, heap[state].id + 1))
                    /\ state' = Len(heap) + 1
                    /\ printOpts' = [printOpts EXCEPT !.stopId = heap[state].id + 2]
                    /\ tmp' = <<>>
               ELSE /\ UNCHANGED <<heap, state, printOpts>>
                    /\ tmp' = tmp \o line
            /\ known' = Append(known, [line |-> line, res |-> res])
            /\ last' = Read(line, res)
            /\ used' = used + 1
            /\ UNCHANGED <<intros, suite>>

\* rl.on('line'): res.state is a new state, one generation after the
\* session's
Line ==
    \E line \in IF used < MaxLines /\ last.outcome # "closed" THEN Lines ELSE {} :
        \E res \in interpret(tmp \o line) :
            /\ IF res.thrown = "" /\ ~res.evaluationErrored
               THEN /\ heap' = Append(heap, Frame(state, heap[state].id + 1))
                    /\ state' = Len(heap) + 1
                    /\ printOpts' = [printOpts EXCEPT !.stopId = heap[state].id + 2]
               ELSE UNCHANGED <<heap, state, printOpts>>
            /\ tmp' = IF res.thrown = "IncompleteError" THEN tmp \o line ELSE <<>>
            /\ known' = Append(known, [line |-> line, res |-> res])
            /\ last' = Read(line, res)
            /\ used' = used + 1
            /\ UNCHANGED <<intros, suite>>

\* rl.on('close'): the process exits
Close ==
    /\ last.outcome # "closed"
    /\ last' = [outcome |-> "closed"]
    /\ UNCHANGED session

ReplNext == Line \/ Close

ReplSpec == ReplInit /\ [][ReplNext]_vars

\* C25: the session state and printOpts.stopId change only on a line whose
\* interpret call returns with evaluationErrored = false, and become the
\* returned state and its id + 1; after a line whose interpret call reports
\* an error or throws, they are what they were before the line.
C25_StateChangesOnSuccessOnly ==
    last.outcome = "line" =>
        IF last.res.thrown = "" /\ ~last.res.evaluationErrored
        THEN /\ state # last.base
             /\ heap[state].parent = last.base
             /\ printOpts.stopId = heap[state].id + 1
        ELSE /\ state = last.base
             /\ printOpts.stopId = last.stopId

\* a line that closes a comment and on which interpret reports an error
C25_Witness ==
    /\ last.outcome = "line"
    /\ last.res = Result("", TRUE)
    /\ last.pending = <<"(", "*">>
    /\ Len(known) = 3
    /\ state = 2 /\ last.base = 2
    /\ printOpts.stopId = 2

\* the lines read since the last line that did not end in IncompleteError
RECURSIVE Pending(_)
Pending(log) ==
    IF log = <<>> \/ log[Len(log)].res.thrown # "IncompleteError" THEN <<>>
    ELSE Append(Pending(SubSeq(log, 1, Len(log) - 1)), log[Len(log)].line)

\* C26: the pending input survives a line only when interpret threw
\* IncompleteError, and the next interpret call receives the pending lines
\* followed by the new line, in arrival order; after any other outcome the
\* pending input is empty, so nothing interpreted to an end is interpreted
\* again.
C26_PendingInput ==
    /\ tmp = Flatten(Pending(known))
    /\ last.outcome = "line" =>
           /\ last.source = Flatten(Pending(SubSeq(known, 1, Len(known) - 1))) \o last.line
           /\ last.res.thrown # "IncompleteError" => tmp = <<>>

\* two lines inside a comment, then the third line is interpreted with both
C26_Witness ==
    /\ last.outcome = "line"
    /\ Len(known) = 3
    /\ last.source = <<"(", "*", "a", ";", "*", ")">>
    /\ last.res = Result("", FALSE)
    /\ tmp = <<>>

(* termination of lex *)

InBounds(l) == l.err # "" \/ (0 <= l.position /\ l.position <= Len(l.input))

\* t is what a step leaves when started in l: it threw, or moved forward
Forward(l, t) == t.err # "" \/ (t.position > l.position /\ InBounds(t))

RECURSIVE Progress(_, _)

ProgressAfter(l, t, fuel) == Forward(l, t.l) /\ Progress(t.l, fuel - 1)

\* every call of nextToken in the loop of lex, started in l, moves forward,
\* the token is read before the skipping starts, and at most fuel calls follow
Progress(l, fuel) ==
    /\ InBounds(l)
    /\ \/ l.err # ""
       \/ finished(l)
       \/ /\ fuel > 0
          /\ Forward(l, nextToken_lex([l EXCEPT !.tokenStart = l.position]).l)
          /\ ProgressAfter(l, nextToken(l), fuel)

\* C27: lex terminates on every finite input: every call of nextToken throws
\* or returns with a position strictly greater than at entry, skipping white
\* space and comments never moves backwards, and the position stays within
\* 0..input.length, so that lex calls nextToken at most input.length times.
C27_LexTerminates ==
    last.outcome = "lexed" =>
        /\ InBounds(skipWhitespace(Lexer(last.input, last.options)))
        /\ Progress(skipWhitespaceAndComments(Lexer(last.input, last.options)),
                    Len(last.input))
        /\ last.result.outcome = "tokens" => Len(last.result.tokens) <= Len(last.input)

\* an input of several tokens with white space and a comment between them
C27_Witness ==
    /\ last.outcome = "lexed"
    /\ last.result.outcome = "tokens"
    /\ Len(last.result.tokens) >= 3
    /\ \E i \in 1..(Len(last.input) - 1) : last.input[i] = "(" /\ last.input[i + 1] = "*"
    /\ \E i \in 1..Len(last.input) : isWhitespace(last.input[i])

(* --------------------- functions bound without rec ---------------------- *)

\* declarations of one program
MaxProgram == 3

\* fn 0 => 2 | _ => f 0
MatchSelf == << <<Constant(0), Constant(2)>>,
                <<Wildcard, FunctionApplication(ValueIdentifier("f"), Constant(0))>> >>

Shadowing ==
    { \* val f = fn _ => 1
      Val("f", Lambda(<< <<Wildcard, Constant(1)>> >>), 2),
      \* val f = fn 0 => 2 | _ => f 0
      Val("f", Lambda(MatchSelf), 3),
      \* val r = f 1
      Val("r", FunctionApplication(ValueIdentifier("f"), Constant(1)), 4),
      \* val x = 1
      Val("x", Constant(1), 5),
      \* val x = 2 and g = fn _ => x
      ValueDeclaration(<<ValueBinding(FALSE, ValueIdentifier("x"), Constant(2)),
                         ValueBinding(FALSE, ValueIdentifier("g"),
                                      Lambda(<< <<Wildcard, ValueIdentifier("x")>> >>))>>, 6),
      \* val r = g 0
      Val("r", FunctionApplication(ValueIdentifier("g"), Constant(0)), 7),
      \* val rec f = fn 0 => 2 | _ => f 0
      ValueDeclaration(<<ValueBinding(TRUE, ValueIdentifier("f"), Lambda(MatchSelf))>>, 8) }

ClosureInit ==
    /\ heap = createBasicStdlib.heap
    /\ state = createBasicStdlib.state
    /\ known = <<[state |-> createBasicStdlib.state,
                  obs |-> Observe(createBasicStdlib.heap, createBasicStdlib.state)]>>
    /\ intros = createBasicStdlib.intros
    /\ last = NoCall
    /\ used = 0
    /\ suite = "shadowing"
    /\ NoRepl

\* a program of up to MaxProgram declarations is evaluated and returns
ProgramOk ==
    \E k \in IF last = NoCall THEN 1..MaxProgram ELSE {} :
        \E chunk \in [1..k -> Shadowing] : Returned(chunk, Run(chunk))

\* the evaluation of the program aborts
ProgramError ==
    \E k \in IF last = NoCall THEN 1..MaxProgram ELSE {} :
        \E chunk \in [1..k -> Shadowing] : Aborted(chunk, Run(chunk))

ClosureNext == ProgramOk \/ ProgramError

ClosureSpec == ClosureInit /\ [][ClosureNext]_vars

RECURSIVE OccursIn(_, _)
\* the identifier occurs in the expression
OccursIn(exp, n) ==
    CASE exp.e = "ValueIdentifier" -> exp.name = n
      [] exp.e = "FunctionApplication" -> OccursIn(exp.func, n) \/ OccursIn(exp.argument, n)
      [] exp.e = "Raise" -> OccursIn(exp.expression, n)
      [] exp.e = "Lambda" ->
            \E i \in 1..Len(exp.match) :
                exp.match[i][1] # ValueIdentifier(n) /\ OccursIn(exp.match[i][2], n)
      [] OTHER -> FALSE

\* the value declarations without rec of the last program that bind a name
\* to the lambda with this match
BoundBy(match) ==
    {d \in {last.chunk[i] : i \in 1..Len(last.chunk)} :
        /\ d.d = "ValueDeclaration"
        /\ \A k \in 1..Len(d.valueBinding) : ~d.valueBinding[k].isRecursive
        /\ \E k \in 1..Len(d.valueBinding) : d.valueBinding[k].expression = Lambda(match)}

\* what the identifier denotes in the body of an applied function without
\* siblings: the lookup from the captured frame as it was at the call
Denotes(ev, n) ==
    IF n \in DOMAIN ev.capBefore.dynamicValue THEN ev.capBefore.dynamicValue[n]
    ELSE getDynamicValue(heap, ev.capBefore.parent, n)

\* C28: when a function bound by a val declaration without rec is applied, a
\* free occurrence in its body of a name bound by that declaration (its own
\* name included) denotes what the name denoted when the right-hand side was
\* evaluated, that is before the declaration; the function does not call
\* itself.
C28_NoRecWithoutRec ==
    last.outcome # "none" =>
        \A ev \in {last.events.apps[k] : k \in 1..Len(last.events.apps)} :
            \A d \in BoundBy(ev.fn.body) :
                \A n \in Declares(d) :
                    OccursIn(Lambda(ev.fn.body), n) =>
                        \A e \in {last.events.rhs[k] : k \in 1..Len(last.events.rhs)} :
                            e.state = ev.fn.state => Denotes(ev, n) = e.visible[n]

(* div and mod *)

Sign(n) == IF n < 0 THEN -1 ELSE IF n > 0 THEN 1 ELSE 0

\* C29: for all Integer a and nonzero Integer b, (a div b) * b + (a mod b) = a,
\* where a mod b is zero or has the sign of b and |a mod b| < |b|.
C29_DivModLaw ==
    (last.outcome = "value" /\ last.op = "mod" /\ last.b # 0) =>
        /\ Finite(Integer_divide(Integer(last.a), Integer(last.b)).value) * last.b
               + Finite(last.result.value) = last.a
        /\ Finite(last.result.value) = 0 \/ Sign(Finite(last.result.value)) = Sign(last.b)
        /\ Abs(Finite(last.result.value)) < Abs(last.b)

(* identifiers written by the user and the parameters of a simplified fun *)

\* the names a token gives to identifiers: its text, or the qualifiers and
\* the last component of a long identifier
NamesOf(t) ==
    IF t.type = "LongIdentifierToken"
    THEN {t.qualifiers[i] : i \in 1..Len(t.qualifiers)} \cup {t.id}
    ELSE IF t.type \in {"AlphanumericIdentifierToken", "IdentifierToken", "TypeVariableToken",
                        "EqualityTypeVariableToken", "StarToken", "EqualsToken"}
    THEN {t.text}
    ELSE {}

\* the characters of a name as one string
RECURSIVE Text(_)
Text(name) == IF name = <<>> THEN "" ELSE Head(name) \o Text(Tail(name))

\* C30: no identifier token begins with an underscore, alone or as a
\* component of a long identifier: an underscore at the start of a token is
\* the keyword _.  Hence no identifier written by the user is one of the
\* parameters __arg<i> of a simplified fun declaration.
C30_NoUserUnderscore ==
    (last.outcome = "lexed" /\ last.result.outcome = "tokens") =>
        \A k \in 1..Len(last.result.tokens) :
            \A name \in NamesOf(last.result.tokens[k]) :
                /\ name # <<>>
                /\ name[1] # "_"
                /\ \A i \in 0..(MaxParams + 9) : Text(name) # IdentifierToken(i)

\* __arg0 lexes as the keyword _ twice and the identifier arg0
C30_Witness ==
    /\ last.outcome = "lexed"
    /\ last.input = <<"_", "_", "a", "r", "g", "0">>
    /\ last.result.outcome = "tokens"
    /\ Len(last.result.tokens) = 3
    /\ last.result.tokens[1].type = "KeywordToken"
    /\ last.result.tokens[2].type = "KeywordToken"
    /\ last.result.tokens[3].text = <<"a", "r", "g", "0">>

====
